---- MODULE Spec2Model ----
(***************************************************************************)
(* Model of the hierarchical building-code parser                         *)
(* (src/code/parse_building_code.py, class BuildingCodeParser).           *)
(*                                                                         *)
(* A text is a sequence of symbols.  A symbol is a one-character string,  *)
(* or a whole keyword ("Table", "Article", "see", "or", "Section") that   *)
(* behaves as the run of letters it is.  Offsets are symbol indexes,      *)
(* 0-based as in Python; slices s[a:b] are Slice(s, a, b).                *)
(*                                                                         *)
(* The regular expressions of the source are transcribed as pattern       *)
(* trees and run by a backtracking matcher with the priority order of     *)
(* Python's re module (greedy before short, left alternative first).      *)
(***************************************************************************)
EXTENDS Integers, Sequences, FiniteSets, TLC

VARIABLES
    text,       \* BuildingCodeParser.text: the markdown document
    sections,   \* BuildingCodeParser.sections: list of Section records
    pc,         \* position of the run inside parse()
    idx,        \* loop index of the running loop
    root,       \* the tree built by _build_hierarchy: path -> node
    warnings,   \* the orphan warnings printed by _insert_section
    runs,       \* completed parse() calls on this parser instance
    firstTree,  \* the dict object returned by the first parse()
    firstView,  \* what that dict held when it was returned
    refs,       \* the list returned by _extract_references
    raw,        \* body handed to _extract_tables_from_section_text
    cleaned,    \* its local 'cleaned'
    matches,    \* its local 'matches' (table blocks still to visit)
    tables,     \* section.tables of the section being extracted
    log,        \* per visited block: what the loop computed
    code_dict,  \* BuildingCodeLoader.load_all: the hierarchy to load
    graph,      \* the Neo4j graph: its nodes and relationships
    todo,       \* load_all: the calls and queries still to run, in order
    similar_articles,  \* answer_question: what find_similar_articles returned
    contexts,          \* its local 'contexts'
    prompt_parts,      \* its local 'prompt_parts'
    current_length,    \* its local 'current_length'
    result             \* what answer_question returned

\* the variables of the loader and of the question answering
ext == <<code_dict, graph, todo, similar_articles, contexts, prompt_parts,
         current_length, result>>

vars == <<text, sections, pc, idx, root, warnings, runs, firstTree, firstView,
          refs, raw, cleaned, matches, tables, log, ext>>

\* no hierarchy is being loaded and no question answered
NoExt ==
    /\ code_dict = <<>> /\ graph = [nodes |-> {}, rels |-> {}] /\ todo = <<>>
    /\ similar_articles = <<>> /\ contexts = <<>> /\ prompt_parts = <<>>
    /\ current_length = 0 /\ result = <<>>

----------------------------------------------------------------------------
(* Sequences and Python slicing *)

Min(a, b) == IF a < b THEN a ELSE b
Max(a, b) == IF a > b THEN a ELSE b

\* Python s[a:b] for 0 <= a, with b clipped to len(s); empty when a >= b.
Slice(s, a, b) == SubSeq(s, a + 1, Min(b, Len(s)))

\* a sequence written as a function over 1..n, as the tuple it is
Tup(f) == f \o <<>>

\* the sequences of ss joined, by halves
RECURSIVE FlattenT(_)
FlattenT(ss) ==
    IF Len(ss) = 0 THEN <<>>
    ELSE IF Len(ss) = 1 THEN ss[1]
    ELSE LET h == Len(ss) \div 2
         IN  FlattenT(SubSeq(ss, 1, h)) \o FlattenT(SubSeq(ss, h + 1, Len(ss)))
Flatten(ss) == FlattenT(Tup(ss))

\* the offsets a..b in increasing order
Offsets(a, b) == Tup([i \in 1..(b - a + 1) |-> a + i - 1])

Range(s) == {s[i] : i \in 1..Len(s)}

\* the values of successive statements, each computed before the next one
\* starts; the last is the result
InOrder(vals) == vals[Len(vals)]

NoDup(s) == \A i, j \in 1..Len(s) : s[i] = s[j] => i = j

----------------------------------------------------------------------------
(* Character classes over symbols *)

Digits   == {"0", "1", "2", "3", "4", "5", "6", "7", "8", "9"}
Labels   == {"Article", "Section", "Subsection", "Clause", "Subclause", "Sentence"}
Keywords == Labels \cup {"Table", "see", "also", "or", "and", "Notes", "to", "unnamed",
                         "notes", "table", "Col", "col", "Support", "of", "Joists",
                         "Maximum", "Spans", "mm", "gypsum", "board"}
Letter1  == {"a", "b", "r", "s", "x", "A", "B"}         \* the one-letter symbols
Letters  == Letter1 \cup Keywords
Spaces   == {" ", "\n"}                    \* \s
WordCh   == Digits \cup Letters \cup {"_"} \* \w

----------------------------------------------------------------------------
(* Pattern trees *)

In(S)          == [k |-> "in", set |-> S]                 \* [S]
NotIn(S)       == [k |-> "notin", set |-> S]              \* [^S]
Cat(rs)        == [k |-> "cat", rs |-> rs]                \* r1 r2 ...
Alt(rs)        == [k |-> "alt", rs |-> rs]                \* r1|r2|...
Rep(r, lo, hi) == [k |-> "rep", r |-> r, lo |-> lo, hi |-> hi, lazy |-> FALSE]
Lazy(r, lo, hi) == [k |-> "rep", r |-> r, lo |-> lo, hi |-> hi, lazy |-> TRUE]
Grp(n, r)      == [k |-> "grp", n |-> n, r |-> r]         \* capturing group n
Bol            == [k |-> "bol"]                           \* ^ with re.MULTILINE
Eol            == [k |-> "eol"]                           \* $ with re.MULTILINE
EndS           == [k |-> "ends"]                          \* $ without MULTILINE
Bos            == [k |-> "bos"]                           \* ^ without MULTILINE
WordB          == [k |-> "wordb"]                         \* \b
Inf            == 0 - 1
Star(r)        == Rep(r, 0, Inf)
Plus(r)        == Rep(r, 1, Inf)
Opt(r)         == Rep(r, 0, 1)
Sym(c)         == In({c})
Dot            == NotIn({"\n"})                           \* . and [^\n]
WS             == In(Spaces)                              \* \s
Dig            == In(Digits)                              \* \d

NoCaps == <<<<Inf, Inf>>, <<Inf, Inf>>, <<Inf, Inf>>>>

IsWord(s, i) == i >= 1 /\ i <= Len(s) /\ s[i] \in WordCh

\* does symbol c match the one-symbol pattern r
Takes(r, c) == IF r.k = "in" THEN c \in r.set ELSE c \notin r.set

\* the number of symbols from offset p on that all match r, at most hi
RunLen(r, s, p, hi) ==
    LET top == IF hi = Inf THEN Len(s) - p ELSE Min(hi, Len(s) - p)
    IN  CHOOSE k \in 0..top :
            /\ \A i \in 1..k : Takes(r, s[p + i])
            /\ (k = top \/ ~Takes(r, s[p + k + 1]))

\* a repeated class from state st: the run lengths lo..k, longest first
\* unless lazy
Runs(r, s, st) ==
    LET k == RunLen(r.r, s, st.p, r.hi)
    IN  IF k < r.lo THEN <<>>
        ELSE Tup([i \in 1..(k - r.lo + 1) |->
                    [st EXCEPT !.p = IF r.lazy THEN st.p + r.lo + i - 1
                                     ELSE st.p + k - i + 1]])

\* sts without the later copies of a state: what follows a state depends on
\* the state alone, so the first copy decides
Dedup(sts) ==
    LET idxs == Tup([i \in 1..Len(sts) |-> i])
        kept == SelectSeq(idxs, LAMBDA i : \A j \in 1..(i - 1) : sts[j] # sts[i])
    IN  Tup([k \in 1..Len(kept) |-> sts[kept[k]]])

\* MS(r, s, sts): the states reached by matching r on s from each state of
\* the list sts, most preferred first.  A state is [p: offset, g: capture
\* spans]; the first state of the result is the match Python reports.
\* A list without copies gives a list without copies.
RECURSIVE MS(_, _, _), MCat(_, _, _, _), MRep(_, _, _, _)
MS(r, s, sts) ==
    CASE r.k \in {"in", "notin"} ->
           LET ok == SelectSeq(sts, LAMBDA st : st.p < Len(s) /\ Takes(r, s[st.p + 1]))
           IN  Tup([i \in 1..Len(ok) |-> [ok[i] EXCEPT !.p = @ + 1]])
      [] r.k = "bol"   -> SelectSeq(sts, LAMBDA st : st.p = 0 \/ s[st.p] = "\n")
      [] r.k = "eol"   -> SelectSeq(sts, LAMBDA st : st.p = Len(s) \/ s[st.p + 1] = "\n")
      [] r.k = "bos"   -> SelectSeq(sts, LAMBDA st : st.p = 0)
      [] r.k = "ends"  -> SelectSeq(sts, LAMBDA st :
                              st.p = Len(s) \/ (st.p = Len(s) - 1 /\ s[st.p + 1] = "\n"))
      [] r.k = "wordb" -> SelectSeq(sts, LAMBDA st : IsWord(s, st.p) # IsWord(s, st.p + 1))
      [] r.k = "cat"   -> MCat(r.rs, 1, s, sts)
      [] r.k = "alt"   ->
           \* from each state in turn, each alternative in turn
           LET na    == Len(r.rs)
               parts == Tup([k \in 1..(Len(sts) * na) |->
                               MS(r.rs[((k - 1) % na) + 1], s,
                                  <<sts[((k - 1) \div na) + 1]>>)])
           IN  IF parts = <<>> THEN <<>> ELSE Dedup(Flatten(parts))
      [] r.k = "grp"   ->
           \* the group's start is noted in each state, its end when the
           \* inside has matched
           LET open  == Tup([i \in 1..Len(sts) |->
                               [sts[i] EXCEPT !.g[r.n] = <<sts[i].p, Inf>>]])
               inner == MS(r.r, s, open)
           IN  IF inner = <<>> THEN <<>>
               ELSE Tup([j \in 1..Len(inner) |->
                           [inner[j] EXCEPT !.g[r.n] = <<@[1], inner[j].p>>]])
      [] r.k = "rep"   ->
           IF r.r.k \in {"in", "notin"}
           THEN Dedup(Flatten([i \in 1..Len(sts) |-> Runs(r, s, sts[i])]))
           ELSE MRep(r, s, Tup([i \in 1..Len(sts) |-> [st |-> sts[i], live |-> TRUE]]), 0)

\* rs[from] rs[from + 1] ...: the whole list of states is carried through
\* one part after the other, eight parts at a time
MCat(rs, from, s, sts) ==
    LET n  == Len(rs) - from + 1
        a1 == MS(rs[from], s, sts)
        a2 == IF n < 2 THEN a1 ELSE MS(rs[from + 1], s, a1)
        a3 == IF n < 3 THEN a2 ELSE MS(rs[from + 2], s, a2)
        a4 == IF n < 4 THEN a3 ELSE MS(rs[from + 3], s, a3)
        a5 == IF n < 5 THEN a4 ELSE MS(rs[from + 4], s, a4)
        a6 == IF n < 6 THEN a5 ELSE MS(rs[from + 5], s, a5)
        a7 == IF n < 7 THEN a6 ELSE MS(rs[from + 6], s, a6)
        a8 == IF n < 8 THEN a7 ELSE MS(rs[from + 7], s, a7)
    IN  IF /\ a1 # <<>>
           /\ a2 # <<>>
           /\ a3 # <<>>
           /\ a4 # <<>>
           /\ a5 # <<>>
           /\ a6 # <<>>
           /\ a7 # <<>>
           /\ a8 # <<>>
        THEN IF n > 8 THEN MCat(rs, from + 8, s, a8) ELSE a8
        ELSE <<>>

\* a repetition after n rounds: the list holds, in order of preference, the
\* states where it has stopped and the live ones, which have done n
\* iterations.  A round puts, in the place of each live state, the states one
\* more iteration reaches (if it moved forward) and the state itself, stopped.
MRep(r, s, items, n) ==
    IF \A i \in 1..Len(items) : ~items[i].live
    THEN Tup([i \in 1..Len(items) |-> items[i].st])
    ELSE LET nexts == Tup([i \in 1..Len(items) |->
                             IF items[i].live /\ (r.hi = Inf \/ n < r.hi)
                             THEN SelectSeq(MS(r.r, s, <<items[i].st>>),
                                            LAMBDA t : t.p > items[i].st.p)
                             ELSE <<>>])
             round(i) ==
                 IF ~items[i].live THEN <<items[i]>>
                 ELSE LET more == Tup([j \in 1..Len(nexts[i]) |->
                                         [st |-> nexts[i][j], live |-> TRUE]])
                          stop == IF n >= r.lo
                                  THEN <<[st |-> items[i].st, live |-> FALSE]>>
                                  ELSE <<>>
                      IN  IF r.lazy THEN stop \o more ELSE more \o stop
             out == Dedup(Flatten([i \in 1..Len(items) |-> round(i)]))
         IN  IF nexts = <<>> \/ out = <<>> THEN <<>> ELSE MRep(r, s, out, n + 1)

\* re.match(r, s) anchored at offset p: the preferred match or "none"
MatchRes(res, p) ==
    IF res = <<>> THEN [ok |-> FALSE]
    ELSE [ok |-> TRUE, start |-> p, end |-> res[1].p, g |-> res[1].g]

MatchAt(r, s, p) == MatchRes(MS(r, s, <<[p |-> p, g |-> NoCaps]>>), p)

\* the match at each offset of s, offset q at index q + 1
MatchesAt(r, s) == Tup([i \in 1..(Len(s) + 1) |-> MatchAt(r, s, i - 1)])

\* r.search(s, pos): the leftmost match at or after offset p
FirstOf(ms) == IF ms = <<>> THEN [ok |-> FALSE] ELSE ms[1]

Search(r, s, p) == FirstOf(SelectSeq(MatchesAt(r, s), LAMBDA m : m.ok /\ m.start >= p))

\* list(r.finditer(s)): the non-overlapping matches, left to right; ms holds
\* the matches not yet passed
RECURSIVE FindIter(_)
FindIter(ms) ==
    IF ms = <<>> THEN <<>>
    ELSE LET from == IF ms[1].end > ms[1].start THEN ms[1].end ELSE ms[1].end + 1
         IN  <<ms[1]>> \o FindIter(SelectSeq(ms, LAMBDA m : m.start >= from))

FindAll(r, s) == FindIter(SelectSeq(MatchesAt(r, s), LAMBDA m : m.ok))

Group(s, m, n) == Slice(s, m.g[n][1], m.g[n][2])
Group0(s, m)   == Slice(s, m.start, m.end)

----------------------------------------------------------------------------
(* Python str methods *)

RECURSIVE LStrip(_, _), RStrip(_, _)
LStrip(s, S) == IF s # <<>> /\ Head(s) \in S THEN LStrip(Tail(s), S) ELSE s
RStrip(s, S) == IF s # <<>> /\ s[Len(s)] \in S
                THEN RStrip(SubSeq(s, 1, Len(s) - 1), S) ELSE s
Strip(s) == LStrip(RStrip(s, Spaces), Spaces)            \* s.strip()

\* s.split(sep): the pieces between the separators, empty pieces kept
Split(s, sep) ==
    LET at == SelectSeq(Offsets(1, Len(s)), LAMBDA i : s[i] = sep)
        lo(k) == IF k = 1 THEN 1 ELSE at[k - 1] + 1
        hi(k) == IF k = Len(at) + 1 THEN Len(s) ELSE at[k] - 1
    IN  Tup([k \in 1..(Len(at) + 1) |-> SubSeq(s, lo(k), hi(k))])

\* s.splitlines(): as split on the newline, without a last empty line
SplitLines(s) ==
    LET ps == Split(s, "\n")
    IN  IF ps[Len(ps)] = <<>> THEN SubSeq(ps, 1, Len(ps) - 1) ELSE ps

Reverse(s) == Tup([i \in 1..Len(s) |-> s[Len(s) + 1 - i]])

\* sep.join(parts)
RECURSIVE Join(_, _)
Join(parts, sep) ==
    IF parts = <<>> THEN <<>>
    ELSE IF Len(parts) = 1 THEN parts[1]
    ELSE parts[1] \o <<sep>> \o Join(Tail(parts), sep)

\* s.rfind(c, 0, hi): the last offset below hi holding c, or -1
RFind(s, c, hi) ==
    LET at == {o \in 0..(Min(hi, Len(s)) - 1) : s[o + 1] = c}
    IN  IF at = {} THEN 0 - 1 ELSE CHOOSE o \in at : \A q \in at : q <= o

\* re.sub(r, repl, s): every match, left to right, replaced by repl
\* ms are the matches: the text between them is kept, each is replaced
SubAt(ms, repl, s) ==
    IF s = <<>> /\ ms = <<>> THEN <<>>
    ELSE Flatten([k \in 1..(Len(ms) + 1) |->
                    Slice(s, IF k = 1 THEN 0 ELSE ms[k - 1].end,
                             IF k > Len(ms) THEN Len(s) ELSE ms[k].start)
                    \o (IF k > Len(ms) THEN <<>> ELSE repl)])

Sub(r, repl, s) == SubAt(FindAll(r, s), repl, s)

\* str(n) for n >= 0
DigitSym == <<"0", "1", "2", "3", "4", "5", "6", "7", "8", "9">>
RECURSIVE Str(_)
Str(n) == IF n < 10 THEN <<DigitSym[n + 1]>>
          ELSE Str(n \div 10) \o <<DigitSym[(n % 10) + 1]>>

----------------------------------------------------------------------------
(* _extract_tables_from_section_text *)

IdCh == Digits \cup Letters \cup {".", "-"}               \* [0-9A-Za-z\.\-]

\* r'<br\s*/?>', r'[_\*]{1,2}', r'^[\s\.\-\:]+', r'\s+'
clean_title_text(s) ==
    Strip(Sub(Plus(WS), <<" ">>,
          Sub(Cat(<<Bos, Plus(In(Spaces \cup {".", "-", ":"}))>>), <<>>,
          Sub(Rep(In({"_", "*"}), 1, 2), <<>>,
          Sub(Cat(<<Sym("<"), Sym("b"), Sym("r"), Star(WS), Opt(Sym("/")), Sym(">")>>),
              <<" ">>, s)))))

\* header row, divider row, one or more data rows
table_regex ==
    Cat(<<Bol, Sym("|"), Star(Dot), Sym("|"), Star(WS), Sym("\n"),
          Bol, Sym("|"), Star(WS), Plus(In({":", "-"})),
               Star(In({"-", "|", ":"} \cup Spaces)), Sym("|"), Star(WS), Sym("\n"),
          Plus(Cat(<<Bol, Sym("|"), Star(Dot), Sym("|"), Star(WS), Opt(Sym("\n"))>>))>>)

\* r'^\s*(?:\*{0,2}\s*Notes to Table\b|Table\s+[0-9A-Za-z\.\-]+\.?|Table\b).*$'
caption_line_re ==
    Cat(<<Bos, Star(WS),
          Alt(<<Cat(<<Rep(Sym("*"), 0, 2), Star(WS),
                      Sym("Notes"), Sym(" "), Sym("to"), Sym(" "), Sym("Table"), WordB>>),
                Cat(<<Sym("Table"), Plus(WS), Plus(In(IdCh)), Opt(Sym("."))>>),
                Cat(<<Sym("Table"), WordB>>)>>),
          Star(Dot), EndS>>)

\* r'(?i)\bTable\s+([0-9A-Za-z\.\-]+\.?)\b'
header_cell_re ==
    Cat(<<WordB, Sym("Table"), Plus(WS),
          Grp(1, Cat(<<Plus(In(IdCh)), Opt(Sym("."))>>)), WordB>>)

\* r'(?i)Table\s+([0-9A-Za-z\.\-]+\.?)'
table_token_re ==
    Cat(<<Sym("Table"), Plus(WS), Grp(1, Cat(<<Plus(In(IdCh)), Opt(Sym("."))>>))>>)

lookback   == 1200
scan_limit == 10
snippet    == 60
short_line == 80

\* raw_num with a trailing dot ensured
WithDot(num) == IF num # <<>> /\ num[Len(num)] = "." THEN num ELSE Append(num, ".")

TableKey(num) == <<"Table", " ">> \o WithDot(num)         \* f"Table {num_norm}"

\* the first non-blank line of the block, stripped
RECURSIVE FirstNonBlank(_)
FirstNonBlank(lines) ==
    IF lines = <<>> THEN <<>>
    ELSE IF Strip(Head(lines)) # <<>> THEN Strip(Head(lines))
    ELSE FirstNonBlank(Tail(lines))

\* lines 341-355 for one cell and the match of 'Table <num>' in it
HeaderCell(cell_text, m) ==
    IF cell_text # <<>> /\ m.ok
    THEN [found |-> TRUE,
          key   |-> TableKey(Strip(Group(cell_text, m, 1))),
          name  |-> clean_title_text(Strip(Slice(cell_text, m.end, Len(cell_text))))]
    ELSE [found |-> FALSE]

\* the first of hs that found a number
FirstFound(hs) ==
    IF SelectSeq(hs, LAMBDA h : h.found) = <<>> THEN [found |-> FALSE]
    ELSE SelectSeq(hs, LAMBDA h : h.found)[1]

\* the first header cell holding 'Table <num>': [found, key, name]
HeaderCells(cells) ==
    FirstFound(Tup([i \in 1..Len(cells) |->
                      HeaderCell(Strip(cells[i]),
                                 Search(header_cell_re, Strip(cells[i]), 0))]))

\* the first of the indexes, or 0
FirstIndex(is) == IF is = <<>> THEN 0 ELSE is[1]

\* index (1-based) of the first line from line i on holding 'Table <num>',
\* or 0
FirstTableLine(lines, i) ==
    FirstIndex(SelectSeq(Offsets(i, Len(lines)),
                         LAMBDA k : Search(table_token_re, lines[k], 0).ok))

\* the title lines collected above the 'Table' line (nearest line first)
RECURSIVE TitleLines(_)
TitleNext(title_line, lines) ==
    IF title_line = <<>> THEN TitleLines(Tail(lines))
    ELSE IF Search(table_token_re, title_line, 0).ok THEN <<>>
    ELSE <<title_line>> \o TitleLines(Tail(lines))

TitleLines(lines) ==
    IF lines = <<>> THEN <<>> ELSE TitleNext(Strip(Head(lines)), lines)

\* lines 383-413: the caption read at the Table line
CaptionRec(line, m_table, titles, all, lookback_slice_start) ==
    [key  |-> TableKey(Strip(Group(line, m_table, 1))),
     name |-> clean_title_text(Join(titles, " ")),
     caption_region_start |->
         IF all # <<>> THEN lookback_slice_start + all[Len(all)].start
         ELSE 0 - 1]

\* lines 365-413 on the lines of the context, nearest line first
CaptionFound(context_before, lookback_slice_start, lines, table_line_idx) ==
    IF table_line_idx = 0
    THEN [key |-> <<>>, name |-> <<>>, caption_region_start |-> 0 - 1]
    ELSE CaptionRec(lines[table_line_idx],
                    Search(table_token_re, lines[table_line_idx], 0),
                    Reverse(TitleLines(SubSeq(lines, 1, table_line_idx - 1))),
                    FindAll(table_token_re, context_before),
                    lookback_slice_start)

CaptionLines(context_before, lookback_slice_start, lines) ==
    CaptionFound(context_before, lookback_slice_start, lines, FirstTableLine(lines, 1))

CaptionIn(context_before, lookback_slice_start) ==
    CaptionLines(context_before, lookback_slice_start,
                 Reverse(SplitLines(context_before)))

\* no caption is found above the block
NoCaption(rawS, start_idx) ==
    [key |-> <<>>, name |-> <<>>, caption_region_start |-> 0 - 1]

\* the caption searched in the text before the block:
\* [key (<<>> if none), name, caption_region_start (-1 for None)]
CaptionBefore(rawS, start_idx) ==
    CaptionIn(Slice(rawS, Max(0, start_idx - lookback), start_idx),
              Max(0, start_idx - lookback))

\* header_line[:60].strip() or "unnamed"
SafeKey(cut) == Strip(IF cut # <<>> THEN cut ELSE <<"unnamed">>)

FallbackOf(header_line, m2) ==
    IF m2.ok
    THEN [key  |-> TableKey(Strip(Group(header_line, m2, 1))),
          name |-> clean_title_text(Strip(Slice(header_line, m2.end, Len(header_line))))]
    ELSE [key  |-> <<"Table", ":", " ">> \o SafeKey(Strip(Slice(header_line, 0, snippet))),
          name |-> <<>>]

\* the fallback keys, used when neither header nor caption gave a number
FallbackKey(header_line) == FallbackOf(header_line, Search(table_token_re, header_line, 0))

\* f"{base_key} ({counter})"
Suffixed(base_key, counter) == base_key \o <<" ", "(">> \o Str(counter) \o <<")">>

\* the loop left out: the base key is used as it is
UniqueKeyNoLoop(tabs, base_key, counter) == base_key

\* the 'while unique_key in section.tables' loop
RECURSIVE UniqueKey(_, _, _)
UniqueKey(tabs, base_key, counter) ==
    LET unique_key == IF counter = 1 THEN base_key ELSE Suffixed(base_key, counter)
    IN  IF unique_key \in DOMAIN tabs THEN UniqueKey(tabs, base_key, counter + 1)
        ELSE unique_key

HasSym(line, c) == \E i \in 1..Len(line) : line[i] = c    \* c in line

\* raw.rfind('\n', 0, pos) + 1, or 0
LineStart(rawS, pos) ==
    IF RFind(rawS, "\n", pos) = 0 - 1 THEN 0 ELSE RFind(rawS, "\n", pos) + 1

\* the scan of up to scan_limit lines above the block: where the removal
\* starts, and how many passes the 'while' loop made
RECURSIVE ScanUp(_, _, _, _)
ScanLine(rawS, line_start, line, remove_start, lines_removed) ==
    IF line = <<>>
       \/ MatchAt(caption_line_re, line, 0).ok
       \/ (Len(line) <= short_line
           /\ (HasSym(line, "Table")
               \/ (Len(line) >= 2 /\ line[1] = "*" /\ line[2] = "*")))
    THEN ScanUp(rawS, line_start, line_start, lines_removed + 1)
    ELSE [remove_start |-> remove_start, lines_removed |-> lines_removed]

ScanUp(rawS, pos, remove_start, lines_removed) ==
    IF lines_removed >= scan_limit
    THEN [remove_start |-> remove_start, lines_removed |-> lines_removed]
    ELSE ScanLine(rawS, LineStart(rawS, pos),
                  Strip(Slice(rawS, LineStart(rawS, pos), pos)),
                  remove_start, lines_removed)

\* section.tables[unique_key] = {...}
Store(tabs, key, rec) ==
    [k \in DOMAIN tabs \cup {key} |-> IF k = key THEN rec ELSE tabs[k]]

\* cleaned[:remove_start] + "\n" + cleaned[end_idx:]
Remove(cl, remove_start, end_idx) ==
    Slice(cl, 0, remove_start) \o <<"\n">> \o Slice(cl, end_idx, Len(cl))

\* lines 434-490: the entry is stored under a free key and the region removed
StepResult(tabs, cl, match, table_text, inHeader, found, unique_key, remove_start) ==
    [tables  |-> Store(tabs, unique_key,
                       [table_name |-> found.name, table_content |-> table_text]),
     cleaned |-> Remove(cl, remove_start, match.end),
     entry   |-> [key |-> unique_key, base |-> found.key,
                  start |-> match.start, content |-> table_text,
                  remove_start |-> remove_start, end |-> match.end,
                  in_header |-> inHeader.found,
                  caption_region_start |-> found.caption_region_start]]

\* lines 448-487: where the removal starts
AtRemoval(tabs, rawS, cl, match, table_text, inHeader, found) ==
    InOrder(<<found,
              StepResult(tabs, cl, match, table_text, inHeader, found,
                         UniqueKey(tabs, found.key, 1),
                         IF found.caption_region_start # 0 - 1
                         THEN found.caption_region_start
                         ELSE ScanUp(rawS, match.start, match.start, 0).remove_start)>>)

\* the fallback key and name with the region start the look-back left
WithFallback(fb, before) ==
    [key |-> fb.key, name |-> fb.name,
     caption_region_start |-> before.caption_region_start]

\* lines 415-432: the fallback when no number was found
AtFallback(tabs, rawS, cl, match, table_text, header_line, inHeader, before) ==
    InOrder(<<before,
              AtRemoval(tabs, rawS, cl, match, table_text, inHeader,
                        IF before.key # <<>> THEN before
                        ELSE WithFallback(FallbackKey(header_line), before))>>)

\* the look-back first: the header row is used when the text before the
\* block gave no number
AtCaptionFirst(tabs, rawS, cl, match, table_text, header_line, inHeader) ==
    AtFallback(tabs, rawS, cl, match, table_text, header_line, inHeader,
               IF CaptionBefore(rawS, match.start).key # <<>> \/ ~inHeader.found
               THEN CaptionBefore(rawS, match.start)
               ELSE [key |-> inHeader.key, name |-> inHeader.name,
                     caption_region_start |-> 0 - 1])

\* lines 357-413: the look-back, when the header row gave no number
AtCaption(tabs, rawS, cl, match, table_text, header_line, inHeader) ==
    InOrder(<<inHeader,
              AtFallback(tabs, rawS, cl, match, table_text, header_line, inHeader,
                         IF inHeader.found
                         THEN [key |-> inHeader.key, name |-> inHeader.name,
                               caption_region_start |-> 0 - 1]
                         ELSE CaptionBefore(rawS, match.start))>>)

\* lines 326-355: the header row and its cells
AtHeader(tabs, rawS, cl, match, table_text, header_line) ==
    InOrder(<<header_line,
              AtCaption(tabs, rawS, cl, match, table_text, header_line,
                        HeaderCells(Split(header_line, "|")))>>)

AtBlock(tabs, rawS, cl, match, table_text) ==
    InOrder(<<table_text,
              AtHeader(tabs, rawS, cl, match, table_text,
                       FirstNonBlank(SplitLines(table_text)))>>)

\* one pass of the 'for match in reversed(matches)' loop
TableStep(tabs, rawS, cl, match) ==
    AtBlock(tabs, rawS, cl, match, RStrip(Group0(rawS, match), {"\n"}))

\* the whole function on a section whose tables mapping is tabs
RECURSIVE TableLoop(_, _, _, _)
TableNext(rawS, ms, r) ==
    InOrder(<<r, TableLoop(r.tables, rawS, r.cleaned, SubSeq(ms, 1, Len(ms) - 1))>>)

TableLoop(tabs, rawS, cl, ms) ==
    IF ms = <<>> THEN [tables |-> tabs, text |-> cl]
    ELSE TableNext(rawS, ms, TableStep(tabs, rawS, cl, ms[Len(ms)]))

extract_tables(tabs, rawS) == TableLoop(tabs, rawS, rawS, FindAll(table_regex, rawS))

----------------------------------------------------------------------------
(* _clean_content *)

\* r'^\d+(?:\.\d+)*\.?\s+[^\n]+$'
heading_line_re ==
    Cat(<<Bol, Plus(Dig), Star(Cat(<<Sym("."), Plus(Dig)>>)), Opt(Sym(".")),
          Plus(WS), Plus(Dot), Eol>>)
\* r'^\s*[#\*_\-]+\s*$'
rule_line_re == Cat(<<Bol, Star(WS), Plus(In({"#", "*", "_", "-"})), Star(WS), Eol>>)
\* r'^\s*_?\*{0,2}\d+-\d+\*{0,2}_?\s*$'
page_line_re ==
    Cat(<<Bol, Star(WS), Opt(Sym("_")), Rep(Sym("*"), 0, 2), Plus(Dig),
          Sym("-"), Plus(Dig), Rep(Sym("*"), 0, 2), Opt(Sym("_")), Star(WS), Eol>>)
\* r'^#{2,}\s+.*$'
hash_line_re == Cat(<<Bol, Rep(Sym("#"), 2, Inf), Plus(WS), Star(Dot), Eol>>)
\* r'^\|.*\|$'
row_line_re == Cat(<<Bol, Sym("|"), Star(Dot), Sym("|"), Eol>>)
\* r'^\s*[-\s\|:]{3,}\s*$'
divider_line_re ==
    Cat(<<Bol, Star(WS), Rep(In({"-", "|", ":"} \cup Spaces), 3, Inf), Star(WS), Eol>>)
\* r'\n{3,}'
blank_run_re == Rep(Sym("\n"), 3, Inf)

clean_content(content) ==
    Strip(Sub(blank_run_re, <<"\n", "\n">>,
          Sub(divider_line_re, <<>>,
          Sub(row_line_re, <<>>,
          Sub(hash_line_re, <<>>,
          Sub(page_line_re, <<>>,
          Sub(rule_line_re, <<>>,
          Sub(heading_line_re, <<>>, content))))))))

----------------------------------------------------------------------------
(* _extract_references *)

lookahead_span == 200
loose_gap      == 80

\* (?:\d+\.){2,3}
dotted_short_re == Rep(Cat(<<Plus(Dig), Sym(".")>>), 2, 3)

\* (?:\d+\.){2,4}
dotted_re == Rep(Cat(<<Plus(Dig), Sym(".")>>), 2, 4)

\* r'\b(?:Article|Articles?|...|Sentence|Sentences?)\s+((?:\d+\.){2,4}(?:\([^\)]*\))*)'
labeled_pattern ==
    Cat(<<WordB,
          Alt(<<Sym("Article"), Cat(<<Sym("Article"), Opt(Sym("s"))>>),
                Sym("Section"), Cat(<<Sym("Section"), Opt(Sym("s"))>>),
                Sym("Subsection"), Cat(<<Sym("Subsection"), Opt(Sym("s"))>>),
                Sym("Clause"), Cat(<<Sym("Clause"), Opt(Sym("s"))>>),
                Sym("Subclause"), Cat(<<Sym("Subclause"), Opt(Sym("s"))>>),
                Sym("Sentence"), Cat(<<Sym("Sentence"), Opt(Sym("s"))>>)>>),
          Plus(WS),
          Grp(1, Cat(<<dotted_re,
                       Star(Cat(<<Sym("("), Star(NotIn({")"})), Sym(")")>>))>>))>>)

\* r'\bTable(?:s)?\s+((?:\d+\.){2,4}(?:-[A-Z])?(?:\s+(?:or|and)\s+(?:\d+\.){2,4}(?:-[A-Z])?)*)'
table_pattern ==
    Cat(<<WordB, Sym("Table"), Opt(Sym("s")), Plus(WS),
          Grp(1, Cat(<<dotted_re, Opt(Cat(<<Sym("-"), In(Letter1)>>)),
                       Star(Cat(<<Plus(WS), Alt(<<Sym("or"), Sym("and")>>), Plus(WS),
                                  dotted_re, Opt(Cat(<<Sym("-"), In(Letter1)>>))>>))>>))>>)

\* r'((?:\d+\.){2,4})'
additional_num_pattern == Grp(1, dotted_re)

\* r'(?:(?:see|see also|see Article|see Section)\b.{0,80}?|\()\s*(((?:\d+\.){2,4}))'
loose_pattern ==
    Cat(<<Alt(<<Cat(<<Alt(<<Sym("see"),
                            Cat(<<Sym("see"), Sym(" "), Sym("also")>>),
                            Cat(<<Sym("see"), Sym(" "), Sym("Article")>>),
                            Cat(<<Sym("see"), Sym(" "), Sym("Section")>>)>>),
                      WordB, Lazy(Dot, 0, loose_gap)>>),
                Sym("(")>>),
          Star(WS), Grp(1, Grp(2, dotted_re))>>)

NumbersAt(s, ms) == Tup([i \in 1..Len(ms) |-> WithDot(Group(s, ms[i], 1))])

\* re.findall(r'((?:\d+\.){2,4})', s): the dotted numbers of s
Numbers(s) == NumbersAt(s, FindAll(additional_num_pattern, s))

\* the token appended although it is in 'seen'
EmitAlways(acc, tok) == [acc EXCEPT !.seen = @ \cup {tok}, !.found = Append(@, tok)]

\* 'if tok not in seen: seen.add(tok); found_ordered.append(tok)'
Emit(acc, tok) ==
    IF tok \in acc.seen THEN acc
    ELSE [acc EXCEPT !.seen = @ \cup {tok}, !.found = Append(@, tok)]

\* no number is taken to belong to a table
NeverTableNumber(acc, tok) == FALSE

\* 'if tok in table_numbers: continue'
IsTableNumber(acc, tok) == tok \in acc.table_numbers

TableTokensAt(txt, ms) == Flatten([i \in 1..Len(ms) |-> Numbers(Group(txt, ms[i], 1))])

\* lines 213-216: the numbers of every table match, in order
TableTokens(txt) == TableTokensAt(txt, FindAll(table_pattern, txt))

\* 'Table <n>.' is recorded once, the number is not marked
RECURSIVE TablePassUnmarked(_, _)
TablePassUnmarked(acc, nums) ==
    IF nums = <<>> THEN acc
    ELSE TablePassUnmarked(Emit(acc, <<"Table", " ">> \o Head(nums)), Tail(nums))

\* lines 218-227: each number is marked as a table's and 'Table <n>.' is
\* recorded once
RECURSIVE TablePass(_, _)
TablePass(acc, nums) ==
    IF nums = <<>> THEN acc
    ELSE TablePass(Emit([acc EXCEPT !.table_numbers = @ \cup {Head(nums)}],
                        <<"Table", " ">> \o Head(nums)),
                   Tail(nums))

\* lines 234-238: the lead number of the group, with its dot
LeadNumber(txt, m, lead) == WithDot(Group(Group(txt, m, 1), lead, 1))

LabeledLead(txt, acc, m, lead) ==
    IF lead.ok /\ IsTableNumber(acc, LeadNumber(txt, m, lead)) THEN <<>>
    ELSE (IF lead.ok THEN <<LeadNumber(txt, m, lead)>> ELSE <<>>)
         \o Numbers(Slice(txt, m.end, Min(Len(txt), m.end + lookahead_span)))

\* lines 232-263: the numbers one labeled match yields: its lead number and
\* those of the lookahead; none when the lead belongs to a table ('continue')
LabeledTokens(txt, acc, m) ==
    LabeledLead(txt, acc, m, MatchAt(additional_num_pattern, Group(txt, m, 1), 0))

\* lines 271-276: the number of one loose match
LooseToken(txt, m) == WithDot(Group(txt, m, 1))

\* lines 240-246, 257-263, 277-283: a bare number is recorded once, unless
\* it belongs to a table
RECURSIVE BareNums(_, _)
BareNums(acc, nums) ==
    IF nums = <<>> THEN acc
    ELSE IF IsTableNumber(acc, Head(nums)) THEN BareNums(acc, Tail(nums))
    ELSE BareNums(Emit(acc, Head(nums)), Tail(nums))

LabeledAll(txt, acc, lm) == Flatten([i \in 1..Len(lm) |-> LabeledTokens(txt, acc, lm[i])])

\* lines 231-263: the labeled pass, after the table pass left acc
LabeledPass(txt, acc) ==
    InOrder(<<acc, BareNums(acc, LabeledAll(txt, acc, FindAll(labeled_pattern, txt)))>>)

LooseAll(txt, ls) == Tup([i \in 1..Len(ls) |-> LooseToken(txt, ls[i])])

\* lines 267-283: the loose pass
LoosePass(txt, acc) ==
    InOrder(<<acc, BareNums(acc, LooseAll(txt, FindAll(loose_pattern, txt)))>>)

extract_references(txt) ==
    IF txt = <<>> THEN <<>>
    ELSE LoosePass(txt,
             LabeledPass(txt,
                 TablePass([found |-> <<>>, seen |-> {}, table_numbers |-> {}],
                           TableTokens(txt)))).found

----------------------------------------------------------------------------
(* _extract_content: the body of the loop for one section *)

\* line 16-17, 96-102: a Section as _extract_sections creates it
NewSection(number, title, match_end) ==
    [number |-> number, title |-> title, text |-> <<>>, start_pos |-> match_end,
     end_pos |-> 0, tables |-> <<>>, referenced_text |-> <<>>]

Count(s, c) == Cardinality({i \in 1..Len(s) : s[i] = c})     \* s.count(c)

\* no path is taken to be an ancestor
NoAncestors(self_num) == {}

\* lines 143-149: the prefixes of the section number with two groups or
\* more, the number itself left out
Ancestors(self_num) ==
    LET parts  == Split(RStrip(self_num, {"."}), ".")
        anc(i) == Join(SubSeq(parts, 1, i + 1), ".") \o <<".">>
    IN  {anc(i) : i \in {j \in 1..(Len(parts) - 2) : Count(anc(j), ".") >= 2}}

\* lines 158-173: the references kept, each with its trailing dot
FilterRefs(raw_refs, self_num, ancestors, own_table_ids) ==
    LET norm == Tup([i \in 1..Len(raw_refs) |-> WithDot(raw_refs[i])])
    IN  SelectSeq(norm, LAMBDA r : /\ r # self_num
                                   /\ r \notin ancestors
                                   /\ r \notin own_table_ids)

\* lines 132-175: the references of the cleaned text, filtered
ContentRefs(section, t, txt) ==
    InOrder(<<txt,
              [section EXCEPT
                  !.tables = t.tables,
                  !.text = txt,
                  !.referenced_text =
                      FilterRefs(extract_references(txt), WithDot(section.number),
                                 Ancestors(WithDot(section.number)), DOMAIN t.tables)]>>)

\* lines 129-130: text = _clean_content(content_without_tables)
ContentOf(section, t) == InOrder(<<t, ContentRefs(section, t, clean_content(t.text))>>)

\* lines 123-175: tables, text and referenced_text of one section, from the
\* slice of the document that is its body
SectionContent(section, raw_content) ==
    ContentOf(section, extract_tables(section.tables, raw_content))

----------------------------------------------------------------------------
(* Section bodies the table extractor is run on *)

MaxBlocks == 3

ProseLine    == <<"a", "\n">>
CaptionLine  == <<"Table", " ", "9", ".", "1", ".", " ", "a", "\n">>
RowLine      == <<"|", "a", "|", "\n">>
DividerLine  == <<"|", "-", "|", "\n">>
IndentedHead == <<" ", "|", "a", "|", "\n">> \o DividerLine
PlainTable   == RowLine \o DividerLine \o RowLine
TitledTable  == <<"|", "Table", " ", "9", ".", "2", ".", "|", "\n">> \o DividerLine \o RowLine

Blocks == {ProseLine, CaptionLine, RowLine, DividerLine, IndentedHead,
           PlainTable, TitledTable}

\* the bodies made of n blocks
RECURSIVE BodiesOf(_)
BodiesOf(n) == IF n = 0 THEN {<<>>}
               ELSE {b \o rest : b \in Blocks, rest \in BodiesOf(n - 1)}

Bodies == UNION {BodiesOf(n) : n \in 0..MaxBlocks}

\* the variables of the parse run, unused while one body is extracted
NoParser == /\ text = <<>> /\ sections = <<>> /\ idx = 0 /\ root = <<>>
            /\ warnings = <<>> /\ runs = 0 /\ firstTree = <<>> /\ firstView = <<>>
            /\ refs = <<>>
            /\ NoExt

\* a fresh Section (tables is empty, line 16) and the body handed over
InitTables ==
    /\ NoParser
    /\ pc = "t_start"
    /\ raw \in Bodies
    /\ cleaned = <<>>
    /\ matches = <<>>
    /\ tables = <<>>
    /\ log = <<>>

\* lines 311-314: cleaned = raw; matches = list(finditer); no match: return raw
TStart ==
    /\ pc = "t_start"
    /\ cleaned' = raw
    /\ matches' = FindAll(table_regex, raw)
    /\ pc' = IF matches' = <<>> THEN "t_done" ELSE "t_loop"
    /\ UNCHANGED <<text, sections, idx, root, warnings, runs, firstTree, firstView, refs,
                   raw, tables, log>>
    /\ UNCHANGED ext

\* what one block leaves: the entry, the text, the block's record
TStored(r) ==
    /\ tables' = r.tables
    /\ cleaned' = r.cleaned
    /\ log' = Append(log, r.entry)

\* the blocks visited first to last
TStepForward ==
    /\ pc = "t_loop"
    /\ matches # <<>>
    /\ TStored(TableStep(tables, raw, cleaned, matches[1]))
    /\ matches' = Tail(matches)
    /\ pc' = IF matches' = <<>> THEN "t_done" ELSE "t_loop"
    /\ UNCHANGED <<text, sections, idx, root, warnings, runs, firstTree, firstView, refs, raw>>
    /\ UNCHANGED ext

\* lines 321-490: one block of 'for match in reversed(matches)'
TStep ==
    /\ pc = "t_loop"
    /\ matches # <<>>
    /\ TStored(TableStep(tables, raw, cleaned, matches[Len(matches)]))
    /\ matches' = SubSeq(matches, 1, Len(matches) - 1)
    /\ pc' = IF matches' = <<>> THEN "t_done" ELSE "t_loop"
    /\ UNCHANGED <<text, sections, idx, root, warnings, runs, firstTree, firstView, refs, raw>>
    /\ UNCHANGED ext

NextTables == TStart \/ TStep

SpecTables == InitTables /\ [][NextTables]_vars

----------------------------------------------------------------------------
(* Claims about _extract_tables_from_section_text *)

TDone == pc = "t_done"

\* the removal region of a visited block, as offsets of the original body
InRegion(e, o) == e.remove_start <= o /\ o < e.end

\* the original body with the removal region of every visited block
\* replaced by one newline: a newline where a region starts, the symbols of
\* the regions left out, every other symbol kept
RegionsReplaced(rawS, entries) ==
    LET piece(o) ==
            LET nls  == Cardinality({i \in 1..Len(entries) : entries[i].remove_start = o})
                here == IF o < Len(rawS) /\ \A i \in 1..Len(entries) : ~InRegion(entries[i], o)
                        THEN <<rawS[o + 1]>> ELSE <<>>
            IN  [i \in 1..nls |-> "\n"] \o here
    IN  Flatten([o \in 1..(Len(rawS) + 1) |-> piece(o - 1)])

\* C5: the offsets taken on the original body stay valid for every removal
\* (the text below the end of the block visited next is still the original
\* one), and the returned text is the original body with exactly the removal
\* region of each block replaced by one newline.
C5_OffsetsStayValid ==
    /\ (pc = "t_loop" /\ matches # <<>>) =>
           Slice(cleaned, 0, matches[Len(matches)].end)
             = Slice(raw, 0, matches[Len(matches)].end)
    /\ TDone => cleaned = RegionsReplaced(raw, log)

\* C6: the tables mapping holds one entry per visited block: the keys are
\* distinct and no entry is overwritten (every block's content is still
\* stored under the key it was given), no block is dropped (at the end there
\* are as many entries as detected blocks), and a block whose base key was
\* taken is stored under the base key with " (n)" appended, n >= 2.
C6_OneEntryPerBlock ==
    /\ Cardinality(DOMAIN tables) = Len(log)
    /\ \A i \in 1..Len(log) :
          /\ log[i].key \in DOMAIN tables
          /\ tables[log[i].key].table_content = log[i].content
          /\ \/ log[i].key = log[i].base
                /\ \A j \in 1..(i - 1) : log[j].key # log[i].base
             \/ \E n \in 2..(Len(log) + 1) :
                   /\ log[i].key = Suffixed(log[i].base, n)
                   /\ \E j \in 1..(i - 1) : log[j].key = log[i].base
    /\ TDone => Len(log) = Len(FindAll(table_regex, raw))

\* a body with two blocks of the same base key, the second stored as " (2)"
C6_Witness ==
    /\ TDone
    /\ \E i \in 1..Len(log) : log[i].key = Suffixed(log[i].base, 2)

\* C7: running the extraction again on the returned text finds no table
\* block.
C7_RemovalIdempotent == TDone => FindAll(table_regex, cleaned) = <<>>

----------------------------------------------------------------------------
(* One section and its body: _extract_references on the body, then the    *)
(* loop body of _extract_content                                           *)

MaxPhrases == 3

SeeLine      == <<"see", " ", "9", ".", "1", ".", "\n">>
ArticleLine  == <<"Article", " ", "9", ".", "1", ".", "1", ".", " ", "and", " ",
                  "9", ".", "3", ".", "\n">>
SeeTableLine == <<"see", " ", "Table", " ", "9", ".", "2", ".", "\n">>
SectionLine  == <<"Section", " ", "9", ".", "2", ".", "(", "1", ")", "\n">>

Phrases == {SeeLine, ArticleLine, SeeTableLine, SectionLine, TitledTable}

RECURSIVE PhrasesOf(_)
PhrasesOf(n) == IF n = 0 THEN {<<>>}
                ELSE {b \o rest : b \in Phrases, rest \in PhrasesOf(n - 1)}

\* 'see Article 9.20.17.5. and Clause 3.1.5.5.(1)(b)'
ClauseProse ==
    <<"see", " ", "Article", " ", "9", ".", "2", "0", ".", "1", "7", ".", "5", ".",
      " ", "and", " ", "Clause", " ", "3", ".", "1", ".", "5", ".", "5", ".",
      "(", "1", ")", "(", "b", ")">>

\* 'Table 9.10.3.1.-A or 9.10.3.1.-B', alone and after 'see'
SuffixedTables ==
    <<"Table", " ", "9", ".", "1", "0", ".", "3", ".", "1", ".", "-", "A", " ", "or",
      " ", "9", ".", "1", "0", ".", "3", ".", "1", ".", "-", "B">>

SeeSuffixedTables == <<"see", " ">> \o SuffixedTables

\* '(see 9.20., 9.27. or 9.28.)'
ChainProse ==
    <<"(", "see", " ", "9", ".", "2", "0", ".", ",", " ", "9", ".", "2", "7", ".",
      " ", "or", " ", "9", ".", "2", "8", ".", ")">>

RefBodies == (UNION {PhrasesOf(n) : n \in 0..MaxPhrases})
                \cup {ClauseProse, SuffixedTables, SeeSuffixedTables, ChainProse}

SecNums == {<<"9", ".", "1", ".">>, <<"9", ".", "1", ".", "1", ".">>}

InitRefs ==
    /\ text = <<>> /\ idx = 0 /\ root = <<>> /\ warnings = <<>> /\ runs = 0
    /\ firstTree = <<>> /\ firstView = <<>>
    /\ cleaned = <<>> /\ matches = <<>> /\ tables = <<>> /\ log = <<>>
    /\ pc = "r_start"
    /\ raw \in RefBodies
    /\ \E number \in SecNums : sections = <<NewSection(number, <<"a">>, 0)>>
    /\ refs = <<>>
    /\ NoExt

\* _extract_references(raw)
RRefs ==
    /\ pc = "r_start"
    /\ refs' = extract_references(raw)
    /\ pc' = "r_refs"
    /\ UNCHANGED <<text, sections, idx, root, warnings, runs, firstTree, firstView,
                   raw, cleaned, matches, tables, log>>
    /\ UNCHANGED ext

\* lines 123-175 for the section, its body being raw
RContent ==
    /\ pc = "r_refs"
    /\ sections' = <<SectionContent(sections[1], raw)>>
    /\ pc' = "r_done"
    /\ UNCHANGED <<text, idx, root, warnings, runs, firstTree, firstView, refs,
                   raw, cleaned, matches, tables, log>>
    /\ UNCHANGED ext

NextRefs == RRefs \/ RContent

SpecRefs == InitRefs /\ [][NextRefs]_vars

----------------------------------------------------------------------------
(* Claims about references *)

\* is path a a proper prefix of the section number n, cut after a group
IsAncestorPath(a, n) ==
    /\ Len(a) < Len(n)
    /\ a # <<>>
    /\ a[Len(a)] = "."
    /\ SubSeq(n, 1, Len(a)) = a

\* C1: referenced_text of a section holds neither the section's own path,
\* nor a path of one of its ancestors, nor a key of the section's own tables
\* mapping.
C1_NoSelfAncestorOwnTable ==
    pc = "r_done" =>
        \A i \in 1..Len(sections[1].referenced_text) :
            LET r == sections[1].referenced_text[i]
            IN  /\ r # sections[1].number
                /\ ~IsAncestorPath(r, sections[1].number)
                /\ r \notin DOMAIN sections[1].tables

\* a section whose text cites its ancestor or itself, and its own table, and
\* some other section: the first two are dropped, the last is kept
C1_Witness ==
    /\ pc = "r_done"
    /\ LET found == Range(extract_references(sections[1].text))
       IN  /\ \E r \in found : r = sections[1].number \/ IsAncestorPath(r, sections[1].number)
           /\ \E r \in found : r \in DOMAIN sections[1].tables
    /\ sections[1].referenced_text # <<>>

\* C9: the list _extract_references returns has no duplicate entry, and
\* every entry ends with a dot.
C9_NoDuplicateToken ==
    pc # "r_start" =>
        /\ NoDup(refs)
        /\ \A i \in 1..Len(refs) : refs[i] # <<>> /\ refs[i][Len(refs[i])] = "."

\* a text in which a number occurs more than once and is returned once,
\* with another token
C9_Witness ==
    /\ pc = "r_refs"
    /\ Len(refs) >= 2
    /\ \E i, j \in 1..Len(Numbers(raw)) : i # j /\ Numbers(raw)[i] = Numbers(raw)[j]

\* C10: when the returned list holds 'Table N.', it does not hold the bare
\* token 'N.'.
C10_TableNumberNotBare ==
    pc # "r_start" =>
        \A i, j \in 1..Len(refs) : refs[i] # <<"Table", " ">> \o refs[j]

\* a text that cites Table 9.2. and Section 9.2.: the loose pass and the
\* labeled pass both meet the number and the result holds the table token
C10_Witness ==
    /\ pc = "r_refs"
    /\ <<"Table", " ", "9", ".", "2", ".">> \in Range(refs)
    /\ \E i \in 1..Len(FindAll(loose_pattern, raw)) :
           LooseToken(raw, FindAll(loose_pattern, raw)[i]) = <<"9", ".", "2", ".">>
    /\ \E i \in 1..Len(FindAll(labeled_pattern, raw)) :
           <<"9", ".", "2", ".">> \in Range(LabeledTokens(raw, [table_numbers |-> {}],
                                                         FindAll(labeled_pattern, raw)[i]))

----------------------------------------------------------------------------
(* Section, _extract_sections, _extract_content, _build_hierarchy          *)

\* number.rstrip('.').split('.')
Parts(number) == Split(RStrip(number, {"."}), ".")

\* the count of groups less one
GroupsLessOne(number) == Len(Parts(number)) - 1

\* line 22: number.count('.')
depth(number) == Count(number, ".")

\* four groups or more
FourOrMore(section_id) ==
    Len(Split(LStrip(RStrip(section_id, {"."}), {"."}), ".")) >= 4

\* create_knowledge_graph.py, lines 196-203: section_id.strip('.').split('.')
is_article_section(section_id) ==
    Len(Split(LStrip(RStrip(section_id, {"."}), {"."}), ".")) = 4

\* str.lower() of one symbol
Lower(c) ==
    CASE c = "A" -> "a" [] c = "B" -> "b"
      [] c = "Table" -> "table" [] c = "Notes" -> "notes" [] c = "Col" -> "col"
      [] c = "Article" -> "article" [] c = "Section" -> "section"
      [] c = "Subsection" -> "subsection" [] c = "Clause" -> "clause"
      [] c = "Subclause" -> "subclause" [] c = "Sentence" -> "sentence"
      [] c = "Support" -> "support" [] c = "Joists" -> "joists"
      [] c = "Maximum" -> "maximum" [] c = "Spans" -> "spans"
      [] OTHER -> c

LowerS(s) == Tup([i \in 1..Len(s) |-> Lower(s[i])])

\* sub in s
Contains(s, sub) == \E i \in 0..(Len(s) - Len(sub)) : Slice(s, i, i + Len(sub)) = sub

\* line 80: ['notes to table', 'col1', 'col2', 'col3']
skip_tokens == {<<"notes", " ", "to", " ", "table">>, <<"col", "1">>,
                <<"col", "2">>, <<"col", "3">>}

\* the pattern with the dot after the number optional
heading_dotless_re ==
    Cat(<<Bol,
          Opt(Cat(<<Rep(Sym("#"), 2, Inf), Star(WS),
                    Opt(Cat(<<Sym("Section"), Plus(WS)>>))>>)),
          Grp(1, Cat(<<Plus(Dig), Star(Cat(<<Sym("."), Plus(Dig)>>)), Opt(Sym("."))>>)),
          Plus(WS),
          Grp(2, Plus(Dot))>>)

\* r'^(?:#{2,}\s*(?:Section\s+)?)?(\d+(?:\.\d+)*\.)\s+([^\n]+)', re.MULTILINE
heading_re ==
    Cat(<<Bol,
          Opt(Cat(<<Rep(Sym("#"), 2, Inf), Star(WS),
                    Opt(Cat(<<Sym("Section"), Plus(WS)>>))>>)),
          Grp(1, Cat(<<Plus(Dig), Star(Cat(<<Sym("."), Plus(Dig)>>)), Sym(".")>>)),
          Plus(WS),
          Grp(2, Plus(Dot))>>)

\* r'\d+\)\s*$'
list_item_re == Cat(<<Plus(Dig), Sym(")"), Star(WS), EndS>>)

list_item_span == 5

\* lines 60-62: the five symbols before the match end a list marker
IsListItem(txt, m) ==
    Search(list_item_re, Slice(txt, Max(0, m.start - list_item_span), m.start), 0).ok

\* lines 74-81: the number starts with 9, has two groups or more, and the
\* title holds no skip token
InPart9(number, title) ==
    /\ Parts(number)[1] = <<"9">>
    /\ Len(Parts(number)) >= 2
    /\ \A skip \in skip_tokens : ~Contains(LowerS(title), skip)

\* lines 55-81: the matches kept, as the dicts of the source
HeadingOf(txt, m) ==
    [start |-> m.start, end |-> m.end,
     number |-> Strip(Group(txt, m, 1)), title |-> Strip(Group(txt, m, 2))]

FilteredMatches(txt, ms) ==
    SelectSeq(Tup([i \in 1..Len(ms) |-> HeadingOf(txt, ms[i])]),
              LAMBDA h : InPart9(h.number, h.title))

\* line 84: list.sort(key=start), stable
RECURSIVE SortByStart(_)
SortInsert(sorted, h) ==
    SelectSeq(sorted, LAMBDA x : x.start <= h.start)
      \o <<h>> \o SelectSeq(sorted, LAMBDA x : x.start > h.start)
SortByStart(hs) ==
    IF hs = <<>> THEN <<>>
    ELSE SortInsert(SortByStart(SubSeq(hs, 1, Len(hs) - 1)), hs[Len(hs)])

\* lines 87-102: one Section per match, its number with the trailing dot
SectionsOf(hs) ==
    Tup([i \in 1..Len(hs) |-> NewSection(WithDot(hs[i].number), hs[i].title, hs[i].end)])

NotListItems(txt, ms) == SelectSeq(ms, LAMBDA m : ~IsListItem(txt, m))

\* lines 46-102: the sections _extract_sections appends for the text
NewSections(txt) ==
    SectionsOf(SortByStart(FilteredMatches(txt, NotListItems(txt, FindAll(heading_re, txt)))))

header_lookback == 200

\* lines 108-121: where the body of section i ends
EndAt(search_start, last_newline, next_start) ==
    IF last_newline # 0 - 1 THEN search_start + last_newline ELSE next_start

EndBefore(txt, next_start) ==
    EndAt(Max(0, next_start - header_lookback),
          RFind(Slice(txt, Max(0, next_start - header_lookback), next_start), "\n",
                next_start),
          next_start)

\* every body runs to the end of the document
EndOfText(txt, secs, i) == Len(txt)

EndPos(txt, secs, i) ==
    IF i + 1 <= Len(secs) THEN EndBefore(txt, secs[i + 1].start_pos) ELSE Len(txt)

\* lines 106-175 for section i
ContentAt(txt, section, end_pos) ==
    SectionContent([section EXCEPT !.end_pos = end_pos],
                   Slice(txt, section.start_pos, end_pos))

\* a dict with d[k] = v
Put(d, k, v) == [x \in (DOMAIN d) \cup {k} |-> IF x = k THEN v ELSE d[x]]

\* lines 543 and 547: '.'.join(parts[:i+1]) + '.'
ParentKey(parts, i) == Join(SubSeq(parts, 1, i + 1), ".") \o <<".">>

\* lines 535-541 and 557-563: the node of section i of the list; its tables
\* entry is the section's own dict, held by reference
Node(i, section) ==
    [title |-> section.title, text |-> section.text, tables |-> [ref |-> i],
     referenced_text |-> section.referenced_text, subsections |-> <<>>]

\* nothing printed
NoWarning(log_, parent_key, number) == log_

\* line 551: the warning printed
Orphan(log_, parent_key, number) ==
    Append(log_, [parent |-> parent_key, section |-> number])

\* lines 544-563 from step i of the walk on: the dict with the node placed,
\* or the key that is missing
RECURSIVE InsertUnder(_, _, _, _, _)
InsertInto(current, key, sub) ==
    IF sub.ok
    THEN [ok |-> TRUE, tree |-> [current EXCEPT ![key].subsections = sub.tree]]
    ELSE sub

\* the walk that places the node in the first dict that lacks the next key
RECURSIVE InsertNearest(_, _, _, _, _)
InsertNearest(current, parts, i, number, node) ==
    IF i > Len(parts) - 2 THEN [ok |-> TRUE, tree |-> Put(current, number, node)]
    ELSE IF ParentKey(parts, i) \notin DOMAIN current
    THEN [ok |-> TRUE, tree |-> Put(current, number, node)]
    ELSE InsertInto(current, ParentKey(parts, i),
                    InsertNearest(current[ParentKey(parts, i)].subsections,
                                  parts, i + 1, number, node))

InsertUnder(current, parts, i, number, node) ==
    IF i > Len(parts) - 2 THEN [ok |-> TRUE, tree |-> Put(current, number, node)]
    ELSE IF ParentKey(parts, i) \notin DOMAIN current
    THEN [ok |-> FALSE, missing |-> ParentKey(parts, i)]
    ELSE InsertInto(current, ParentKey(parts, i),
                    InsertUnder(current[ParentKey(parts, i)].subsections,
                                parts, i + 1, number, node))

\* the node placed at the root whatever its number
insert_at_root(tree, i, section) ==
    [ok |-> TRUE, tree |-> Put(tree, section.number, Node(i, section))]

\* lines 529-563
insert_section(tree, i, section) ==
    IF Len(Parts(section.number)) = 2
    THEN [ok |-> TRUE, tree |-> Put(tree, section.number, Node(i, section))]
    ELSE InsertUnder(tree, Parts(section.number), 1, section.number, Node(i, section))

\* the tree as json.dump writes it: every tables entry read through its
\* reference
RECURSIVE View(_, _)
TablesOf(t, secs) == IF DOMAIN t = {"ref"} THEN secs[t.ref].tables ELSE t.val
View(tree, secs) ==
    [k \in DOMAIN tree |->
        [tree[k] EXCEPT !.tables = TablesOf(@, secs),
                        !.subsections = View(@, secs)]]

\* the tree with every tables entry as a dict of its own
RECURSIVE Detached(_, _)
Detached(tree, secs) ==
    [k \in DOMAIN tree |->
        [tree[k] EXCEPT !.tables = [val |-> TablesOf(@, secs)],
                        !.subsections = Detached(@, secs)]]

----------------------------------------------------------------------------
(* The documents given to the parser, and parse()                          *)

MaxLines == 3
MaxRuns == 2

Head2     == <<"9", ".", "1", ".", " ", "a", "\n">>
Head3     == <<"9", ".", "1", ".", "1", ".", " ", "a", "\n">>
Head4     == <<"9", ".", "1", ".", "1", ".", "1", ".", " ", "a", "\n">>
OtherPart == <<"3", ".", "1", ".", " ", "a", "\n">>
ColTitle  == <<"9", ".", "2", ".", " ", "Col", "1", "\n">>
BareHead  == <<"9", ".", "1", ".", "1", ".", "\n">>
ListMark  == <<"1", ")", "\n">>
SeeHead   == <<"see", " ", "9", ".", "1", ".", "1", ".", "\n">>

DocLines == {Head2, Head3, Head4, OtherPart, ColTitle, BareHead, ListMark, PlainTable}

RECURSIVE LinesOf(_)
LinesOf(n) == IF n = 0 THEN {<<>>}
              ELSE {b \o rest : b \in DocLines, rest \in LinesOf(n - 1)}

\* '9.23.11.3. Support of Joists', prose, the captioned table
JoistsDoc ==
    <<"9", ".", "2", "3", ".", "1", "1", ".", "3", ".", " ", "Support", " ", "of",
      " ", "Joists", "\n",
      "a", " ", "b", "\n",
      "\n",
      "Table", " ", "9", ".", "2", "3", ".", "1", "1", ".", "3", ".", " ", "Maximum",
      " ", "Spans", "\n",
      "\n",
      "|", "a", "|", "b", "|", "\n",
      "|", "-", "|", "-", "|", "\n",
      "|", "1", "|", "2", "|", "\n">>

\* '9.5 mm gypsum board' under a heading, alone on a line and after 'see'
GypsumProse == <<"9", ".", "5", " ", "mm", " ", "gypsum", " ", "board", "\n">>

GypsumDoc ==
    <<"9", ".", "1", ".", " ", "a", "\n">> \o GypsumProse \o <<"see", " ">> \o GypsumProse

\* a five-group heading under its chain, with '## Section' before the number
DeepDoc ==
    <<"#", "#", " ", "Section", " ">> \o Head2 \o Head3 \o Head4
       \o <<"9", ".", "1", ".", "1", ".", "1", ".", "1", ".", " ", "a", "\n">>

\* a section with two blocks that get the same key, prose between them
TwoTablesDoc == Head2 \o PlainTable \o ProseLine \o PlainTable

\* a section whose body cites its subsection
SeeDoc == Head2 \o SeeHead \o Head3

Docs == (UNION {LinesOf(n) : n \in 0..MaxLines})
           \cup {JoistsDoc, GypsumDoc, DeepDoc, TwoTablesDoc, SeeDoc}

Init ==
    /\ text \in Docs
    /\ sections = <<>>
    /\ pc = "extract"
    /\ idx = 0
    /\ root = <<>>
    /\ warnings = <<>>
    /\ runs = 0
    /\ firstTree = <<>>
    /\ firstView = <<>>
    /\ refs = <<>> /\ raw = <<>> /\ cleaned = <<>> /\ matches = <<>>
    /\ tables = <<>> /\ log = <<>>
    /\ NoExt

\* line 42: self._extract_sections()
extract_sections ==
    /\ pc = "extract"
    /\ sections' = sections \o NewSections(text)
    /\ idx' = 1
    /\ pc' = "content"
    /\ UNCHANGED <<text, root, warnings, runs, firstTree, firstView,
                   refs, raw, cleaned, matches, tables, log>>
    /\ UNCHANGED ext

\* lines 106-175: one pass of the loop of _extract_content
extract_content ==
    /\ pc = "content"
    /\ idx <= Len(sections)
    /\ sections' = [sections EXCEPT
                      ![idx] = ContentAt(text, sections[idx], EndPos(text, sections, idx))]
    /\ idx' = idx + 1
    /\ UNCHANGED <<text, pc, root, warnings, runs, firstTree, firstView,
                   refs, raw, cleaned, matches, tables, log>>
    /\ UNCHANGED ext

\* line 522: root = {}
build_hierarchy ==
    /\ pc = "content"
    /\ idx > Len(sections)
    /\ root' = <<>>
    /\ idx' = 1
    /\ pc' = "build"
    /\ UNCHANGED <<text, sections, warnings, runs, firstTree, firstView,
                   refs, raw, cleaned, matches, tables, log>>
    /\ UNCHANGED ext

Placed(r) ==
    /\ r.ok
    /\ root' = r.tree
    /\ UNCHANGED warnings

Dropped(r, number) ==
    /\ ~r.ok
    /\ warnings' = Orphan(warnings, r.missing, number)
    /\ UNCHANGED root

Inserted(r, number) == Placed(r) \/ Dropped(r, number)

\* the loop of _build_hierarchy does not move on to the next section
insert_stalled ==
    /\ pc = "build"
    /\ idx <= Len(sections)
    /\ UNCHANGED vars

\* lines 524-525: one pass of the loop of _build_hierarchy
insert ==
    /\ pc = "build"
    /\ idx <= Len(sections)
    /\ Inserted(insert_section(root, idx, sections[idx]), sections[idx].number)
    /\ idx' = idx + 1
    /\ UNCHANGED <<text, sections, pc, runs, firstTree, firstView,
                   refs, raw, cleaned, matches, tables, log>>
    /\ UNCHANGED ext

\* line 527 and line 44: the tree is returned
return ==
    /\ pc = "build"
    /\ idx > Len(sections)
    /\ runs' = runs + 1
    /\ firstTree' = IF runs = 0 THEN root ELSE firstTree
    /\ firstView' = IF runs = 0 THEN View(root, sections) ELSE firstView
    /\ pc' = "returned"
    /\ UNCHANGED <<text, sections, idx, root, warnings,
                   refs, raw, cleaned, matches, tables, log>>
    /\ UNCHANGED ext

\* parse() is called again on the same parser
parse_again ==
    /\ pc = "returned"
    /\ runs < MaxRuns
    /\ pc' = "extract"
    /\ idx' = 0
    /\ UNCHANGED <<text, sections, root, warnings, runs, firstTree, firstView,
                   refs, raw, cleaned, matches, tables, log>>
    /\ UNCHANGED ext

\* lines 36-38: a new BuildingCodeParser on the same text; the tree returned
\* before keeps the dicts of the sections of the old parser
new_parser ==
    /\ pc = "returned"
    /\ runs < MaxRuns
    /\ sections # <<>>
    /\ sections' = <<>>
    /\ firstTree' = Detached(firstTree, sections)
    /\ warnings' = <<>>
    /\ pc' = "extract"
    /\ idx' = 0
    /\ UNCHANGED <<text, root, runs, firstView,
                   refs, raw, cleaned, matches, tables, log>>
    /\ UNCHANGED ext

Next ==
    \/ extract_sections
    \/ extract_content
    \/ build_hierarchy
    \/ insert
    \/ return
    \/ parse_again
    \/ new_parser

Spec == Init /\ [][Next]_vars

\* lines 40-44: once called, parse() runs on: the code is sequential and
\* waits for nothing, so each of its steps is taken when it can be, while a
\* further call is the caller's choice. For _extract_sections and the loop
\* of _extract_content weak fairness is written out, the step being enabled
\* exactly when its guard holds (it changes pc or idx).
FairSections == []<>(pc # "extract") \/ []<><<extract_sections>>_vars

FairContent ==
    []<>(~(pc = "content" /\ idx <= Len(sections))) \/ []<><<extract_content>>_vars

FairSpec ==
    /\ Spec
    /\ FairSections
    /\ FairContent
    /\ WF_vars(build_hierarchy)
    /\ WF_vars(insert)
    /\ WF_vars(return)

----------------------------------------------------------------------------
(* Claims about the hierarchy *)

\* the subsections dict of the node whose path is the first n groups of
\* parts (the root dict for n = 1), if that node is on the path from the root
RECURSIVE SubsAt(_, _, _)
SubsAt(tree, parts, n) ==
    IF n = 1 THEN [ok |-> TRUE, d |-> tree]
    ELSE LET up  == SubsAt(tree, parts, n - 1)
             key == ParentKey(parts, n - 1)
         IN  IF up.ok /\ key \in DOMAIN up.d
             THEN [ok |-> TRUE, d |-> up.d[key].subsections]
             ELSE [ok |-> FALSE]

\* the ancestor prefixes of two groups or more that are not nodes on the
\* path, by their count of groups
MissingAncestors(tree, parts) ==
    {n \in 2..(Len(parts) - 1) : ~SubsAt(tree, parts, n).ok}

\* one pass of the insertion loop is taken
InsertStep == pc = "build" /\ idx <= Len(sections) /\ idx' = idx + 1

\* C2: a section of more than two groups is placed only if every ancestor
\* prefix of two groups or more is a node on the path from the root when it
\* is inserted; otherwise the tree is left as it was and the section is
\* reported as an orphan.
C2_NoPlacementWithoutAncestors ==
    [][InsertStep =>
         LET parts == Parts(sections[idx].number)
         IN  IF MissingAncestors(root, parts) = {}
             THEN /\ sections[idx].number
                       \in DOMAIN SubsAt(root', parts, Len(parts) - 1).d
                  /\ warnings' = warnings
             ELSE /\ root' = root
                  /\ Len(warnings') = Len(warnings) + 1
                  /\ warnings'[Len(warnings')].section = sections[idx].number]_vars

\* a run that placed a section under its parent and reported another as an
\* orphan
C2_Witness ==
    /\ pc = "returned"
    /\ warnings # <<>>
    /\ \E k \in DOMAIN root : DOMAIN root[k].subsections # {}

\* C3: when an ancestor is missing, the warning names the first missing
\* ancestor and the section, the tree is not changed, and the loop goes on:
\* the tree is returned only after every section of the list was visited.
C3_OrphanWarnedAndDropped ==
    /\ [][(InsertStep /\ MissingAncestors(root, Parts(sections[idx].number)) # {}) =>
            LET parts == Parts(sections[idx].number)
                first == CHOOSE n \in MissingAncestors(root, parts) :
                            \A q \in MissingAncestors(root, parts) : n <= q
            IN  /\ warnings' = Append(warnings,
                                      [parent |-> ParentKey(parts, first - 1),
                                       section |-> sections[idx].number])
                /\ root' = root
                /\ pc' = "build"]_vars
    /\ [](pc = "returned" => idx = Len(sections) + 1)

\* a run whose first section was an orphan and that placed a later section
C3_Witness ==
    /\ pc = "returned"
    /\ warnings # <<>>
    /\ warnings[1].section = sections[1].number
    /\ DOMAIN root # {}

\* every key of the dict is the path of parts extended by one group, and so
\* on below it
RECURSIVE WellKeyed(_, _)
WellKeyed(tree, parts) ==
    \A k \in DOMAIN tree :
        /\ Len(Parts(k)) = Len(parts) + 1
        /\ SubSeq(Parts(k), 1, Len(parts)) = parts
        /\ k = Join(Parts(k), ".") \o <<".">>
        /\ WellKeyed(tree[k].subsections, Parts(k))

\* C19: every key of the root is a path of exactly two groups, and every
\* key of a node's subsections is the node's path extended by exactly one
\* group.
C19_KeysExtendParent ==
    /\ \A k \in DOMAIN root :
          Len(Parts(k)) = 2 /\ WellKeyed(root[k].subsections, Parts(k))
    /\ \A k \in DOMAIN firstTree :
          Len(Parts(k)) = 2 /\ WellKeyed(firstTree[k].subsections, Parts(k))

\* a tree three levels deep
C19_Witness ==
    /\ pc = "returned"
    /\ \E k \in DOMAIN root : \E j \in DOMAIN root[k].subsections :
          DOMAIN root[k].subsections[j].subsections # {}

----------------------------------------------------------------------------
(* Claims about the section list and the runs of parse() *)

\* C4: no two entries of the section list carry the same number.
C4_PathsUnique ==
    \A i, j \in 1..Len(sections) :
        sections[i].number = sections[j].number => i = j

\* C8: the tree a second parse() returns, on the same parser or on a new
\* one, is identical to the tree the first run returned.
C8_ReparseSameTree ==
    (pc = "returned" /\ runs = 2) =>
        View(root, sections) = View(firstTree, sections)

\* every key of the dict, at nesting level n (the root entries are level 1),
\* has depth n + more
RECURSIVE DepthAtLevel(_, _, _)
DepthAtLevel(tree, n, more) ==
    \A k \in DOMAIN tree :
        depth(k) = n + more /\ DepthAtLevel(tree[k].subsections, n + 1, more)

\* C11 as stated: depth(number) is the count of groups less one, for the
\* sections of the list, and is the nesting level of the node in the tree.
C11_DepthIsGroupsLessOne ==
    /\ \A i \in 1..Len(sections) :
          depth(sections[i].number) = GroupsLessOne(sections[i].number)
    /\ DepthAtLevel(root, 1, 0)

\* C11: depth(number) is the count of groups of the path, for every section
\* of the list, and the node of a section lies at nesting level depth - 1 of
\* the tree (the root entries, of two groups, being level 1).
C11_DepthIsGroups ==
    /\ \A i \in 1..Len(sections) :
          depth(sections[i].number) = Len(Parts(sections[i].number))
    /\ DepthAtLevel(root, 1, 1)
    /\ DepthAtLevel(firstTree, 1, 1)

\* a returned tree with a section of depth 4 at its third level
C11_Witness ==
    /\ pc = "returned"
    /\ \E k \in DOMAIN root : \E j \in DOMAIN root[k].subsections :
          \E a \in DOMAIN root[k].subsections[j].subsections : depth(a) = 4

C13_SpineSortedAndFiltered ==
    /\ \A i, j \in 1..Len(sections) :
          i < j => sections[i].start_pos < sections[j].start_pos
    /\ \A i \in 1..Len(sections) :
          /\ sections[i].number[Len(sections[i].number)] = "."
          /\ Parts(sections[i].number)[1] = <<"9">>
          /\ Len(Parts(sections[i].number)) >= 2
          /\ \A skip \in skip_tokens : ~Contains(LowerS(sections[i].title), skip)

\* the offset at which the heading that ends at offset e starts
HeaderStart(txt, e) ==
    LET ms == SelectSeq(FindAll(heading_re, txt), LAMBDA m : m.end = e)
    IN  ms[1].start

\* C14: the body of every section but the last stops at the header line of
\* the next section (at its first symbol or at the newline before it) and
\* holds no symbol of that header; the body of the last section ends with
\* the document.
C14_BodyStopsAtNextHeader ==
    \A i \in 1..Len(sections) :
        (pc # "content" \/ i < idx) =>
            IF i < Len(sections)
            THEN /\ sections[i].end_pos <= HeaderStart(text, sections[i + 1].start_pos)
                 /\ sections[i].end_pos >= HeaderStart(text, sections[i + 1].start_pos) - 1
            ELSE sections[i].end_pos = Len(text)

----------------------------------------------------------------------------
(* The scenarios *)

JoistsNumber == <<"9", ".", "2", "3", ".", "1", "1", ".", "3", ".">>

\* C15: the document with the heading '9.23.11.3. Support of Joists', prose
\* and the table captioned 'Table 9.23.11.3. Maximum Spans' gives a section
\* '9.23.11.3.' with exactly one table, keyed 'Table 9.23.11.3.', whose text
\* holds no table row and no divider line.
C15_JoistsTable ==
    (text = JoistsDoc /\ pc \in {"build", "returned"}) =>
        /\ sections # <<>>
        /\ \A i \in 1..Len(sections) :
              /\ sections[i].number = JoistsNumber
              /\ sections[i].title = <<"Support", " ", "of", " ", "Joists">>
              /\ DOMAIN sections[i].tables = {<<"Table", " ">> \o JoistsNumber}
              /\ ~HasSym(sections[i].text, "|")
              /\ FindAll(table_regex, sections[i].text) = <<>>
              /\ FindAll(divider_line_re, sections[i].text) = <<>>

\* the first run on that document is over: the prose is the text, the block
\* is stored under the number of its caption
C15_Witness ==
    /\ text = JoistsDoc
    /\ pc = "returned"
    /\ runs = 1
    /\ sections[1].text = <<"a", " ", "b">>
    /\ Len(sections[1].tables[<<"Table", " ">> \o JoistsNumber].table_content) = 17

\* how often r is in the list
Times(list, r) == Cardinality({i \in 1..Len(list) : list[i] = r})

\* C16: for 'see Article 9.20.17.5. and Clause 3.1.5.5.(1)(b)' the
\* references are '9.20.17.5.' and then '3.1.5.5.', each once, and no entry
\* holds a parenthesis.
C16_ArticleThenClause ==
    (raw = ClauseProse /\ pc = "r_done") =>
        LET list == sections[1].referenced_text
            a == <<"9", ".", "2", "0", ".", "1", "7", ".", "5", ".">>
            c == <<"3", ".", "1", ".", "5", ".", "5", ".">>
        IN  /\ Times(list, a) = 1
            /\ Times(list, c) = 1
            /\ \E i, j \in 1..Len(list) : i < j /\ list[i] = a /\ list[j] = c
            /\ \A i \in 1..Len(list) : ~HasSym(list[i], "(") /\ ~HasSym(list[i], ")")

\* the section of that prose was read: the labeled pass met both numbers
C16_Witness ==
    /\ raw = ClauseProse
    /\ pc = "r_done"
    /\ Len(FindAll(labeled_pattern, sections[1].text)) = 2
    /\ Len(sections[1].referenced_text) = 2

\* C17: for 'Table 9.10.3.1.-A or 9.10.3.1.-B' the references hold
\* 'Table 9.10.3.1.' once and do not hold '9.10.3.1.'.
C17_SuffixedTablesOnce ==
    (raw \in {SuffixedTables, SeeSuffixedTables} /\ pc = "r_done") =>
        LET list == sections[1].referenced_text
            n == <<"9", ".", "1", "0", ".", "3", ".", "1", ".">>
        IN  /\ Times(list, <<"Table", " ">> \o n) = 1
            /\ Times(list, n) = 0

\* the citation after 'see' was read: the table pass met the number twice
\* and the loose pass met it too
C17_Witness ==
    /\ raw = SeeSuffixedTables
    /\ pc = "r_done"
    /\ Len(TableTokens(sections[1].text)) = 2
    /\ FindAll(loose_pattern, sections[1].text) # <<>>
    /\ Len(sections[1].referenced_text) = 1

\* C18: '9.5' of '9.5 mm gypsum board' is no heading and no reference: the
\* document gives the section of its heading line alone, without reference;
\* and in every document each section number has two groups or more and
\* ends with a dot, as each reference does.
C18_DotlessNumberIgnored ==
    /\ \A i \in 1..Len(sections) :
          /\ Len(Parts(sections[i].number)) >= 2
          /\ sections[i].number[Len(sections[i].number)] = "."
          /\ \A j \in 1..Len(sections[i].referenced_text) :
                LET r == sections[i].referenced_text[j]
                IN  r[Len(r)] = "." /\ Count(r, ".") >= 2
    /\ text = GypsumDoc =>
          \A i \in 1..Len(sections) :
              /\ sections[i].number = <<"9", ".", "1", ".">>
              /\ sections[i].referenced_text = <<>>

\* the prose after 'see' is the text of the section, and was searched for
\* references
C18_Witness ==
    /\ text = GypsumDoc
    /\ pc = "returned"
    /\ sections[1].text = <<"see", " ", "9", ".", "5", " ", "mm", " ", "gypsum", " ", "board">>
    /\ FindAll(loose_pattern, sections[1].text) = <<>>

----------------------------------------------------------------------------
(* The lines above a block *)

\* lines 468-487: a blank line, a caption line, or a short line that holds
\* 'Table' or starts with bold markers
CaptionLike(line) ==
    \/ line = <<>>
    \/ MatchAt(caption_line_re, line, 0).ok
    \/ (Len(line) <= short_line
        /\ (HasSym(line, "Table")
            \/ (Len(line) >= 2 /\ line[1] = "*" /\ line[2] = "*")))

\* the offset at which the run of caption-like lines that ends just above
\* offset pos starts, n lines at most
RECURSIVE RunAbove(_, _, _)
RunAbove(rawS, pos, n) ==
    IF n = 0 \/ pos = 0 THEN pos
    ELSE LET line_start == LineStart(rawS, pos - 1)
         IN  IF CaptionLike(Strip(Slice(rawS, line_start, pos - 1)))
             THEN RunAbove(rawS, line_start, n - 1)
             ELSE pos

\* C20: when the look-back found no caption region, the removal of a block
\* starts at the first of the blank or caption-like lines that stand just
\* above it (ten at most), so that these lines go with the block.
C20_CaptionLinesAboveRemoved ==
    \A i \in 1..Len(log) :
        log[i].caption_region_start = 0 - 1 =>
            log[i].remove_start = RunAbove(raw, log[i].start, scan_limit)

----------------------------------------------------------------------------
(* The passes of _extract_references *)

\* the list found_ordered when the labeled pass is over (line 263)
LabeledFound(txt) ==
    LabeledPass(txt, TablePass([found |-> <<>>, seen |-> {}, table_numbers |-> {}],
                               TableTokens(txt))).found

\* a dotted number after a comma or 'and'
chained_re == Cat(<<Alt(<<Sym(","), Sym("and")>>), Star(WS), Grp(1, dotted_re)>>)

\* tok is the number of a chained citation somewhere in txt
Chained(txt, tok) ==
    LET ms == FindAll(chained_re, txt)
    IN  \E i \in 1..Len(ms) : WithDot(Group(txt, ms[i], 1)) = tok

\* tok is the number that follows the keyword of a labeled match of txt
Labeled(txt, tok) ==
    LET ms == FindAll(labeled_pattern, txt)
    IN  \E i \in 1..Len(ms) :
            LET lead == MatchAt(additional_num_pattern, Group(txt, ms[i], 1), 0)
            IN  lead.ok /\ LeadNumber(txt, ms[i], lead) = tok

\* C21: a bare number the labeled pass records is the number of a labeled
\* match or a number introduced by a comma or 'and'; a number of the
\* lookahead window that is not so introduced is not recorded by this pass.
C21_LookaheadOnlyChained ==
    pc # "r_start" =>
        \A i \in 1..Len(LabeledFound(raw)) :
            LET tok == LabeledFound(raw)[i]
            IN  \/ Head(tok) = "Table"
                \/ Labeled(raw, tok)
                \/ Chained(raw, tok)

\* C22: for the chained citation '(see 9.20., 9.27. or 9.28.)', which has no
\* structural keyword, the result holds every number of the chain: '9.20.',
\* '9.27.' and '9.28.'.
C22_LooseChainComplete ==
    (pc # "r_start" /\ raw = ChainProse) =>
        {<<"9", ".", "2", "0", ".">>, <<"9", ".", "2", "7", ".">>,
         <<"9", ".", "2", "8", ".">>} \subseteq Range(refs)

\* the dotted number of a token: the token itself, or what follows 'Table '
NumberOf(tok) == IF Head(tok) = "Table" THEN SubSeq(tok, 3, Len(tok)) ELSE tok

\* the offsets in txt at which the number of tok is cited
SeenAt(txt, tok) ==
    LET ms == FindAll(additional_num_pattern, txt)
    IN  {ms[i].start : i \in {j \in 1..Len(ms) : WithDot(Group(txt, ms[j], 1)) = NumberOf(tok)}}

\* the offset of the first citation of tok in txt
FirstSeen(txt, tok) == CHOOSE o \in SeenAt(txt, tok) : \A q \in SeenAt(txt, tok) : o <= q

\* C23: the returned list is in first-seen order: of two tokens, the one
\* whose first citation stands earlier in the text stands earlier in the
\* list, also when one is a table token and the other a section token.
C23_FirstSeenOrder ==
    pc # "r_start" =>
        \A i, j \in 1..Len(refs) :
            (/\ SeenAt(raw, refs[i]) # {} /\ SeenAt(raw, refs[j]) # {}
             /\ FirstSeen(raw, refs[i]) < FirstSeen(raw, refs[j])) => i < j

----------------------------------------------------------------------------
(* Key and caption of a block *)

\* the 'Table <id>' token of the header row of a block
HeaderToken(content) == HeaderCells(Split(FirstNonBlank(SplitLines(content)), "|"))

\* the key was synthesized from the header row: 'Table: <snippet>'
Synthesized(key) == Len(key) >= 2 /\ key[1] = "Table" /\ key[2] = ":"

\* C24: key and caption of a block are chosen by strict priority: a
\* 'Table <id>' token in a header cell gives the key and the caption, and the
\* text before the block is then not searched; otherwise a caption line in
\* the look-back before the block gives them; the key synthesized from the
\* header row is used only when neither gave a key, with an empty caption.
C24_KeyPriority ==
    \A i \in 1..Len(log) :
        LET e   == log[i]
            hdr == HeaderToken(e.content)
            cap == CaptionBefore(raw, e.start)
        IN  /\ hdr.found =>
                /\ e.base = hdr.key
                /\ tables[e.key].table_name = hdr.name
                /\ e.caption_region_start = 0 - 1
            /\ (~hdr.found /\ cap.key # <<>>) =>
                /\ e.base = cap.key
                /\ tables[e.key].table_name = cap.name
            /\ Synthesized(e.base) =>
                /\ ~hdr.found
                /\ cap.key = <<>>
                /\ tables[e.key].table_name = <<>>

\* a body in which one block has a token in its header row and a caption
\* line above it, and another block has neither
C24_Witness ==
    /\ TDone
    /\ \E i \in 1..Len(log) :
           /\ HeaderToken(log[i].content).found
           /\ CaptionBefore(raw, log[i].start).key # <<>>
    /\ \E i \in 1..Len(log) : Synthesized(log[i].base)

----------------------------------------------------------------------------
(* Termination of parse() *)

\* line 126: the body of a section
BodyOf(section) == Slice(text, section.start_pos, section.end_pos)

\* the numbers of passes the scan above each block of the body makes
ScanPasses(body) ==
    LET ms == FindAll(table_regex, body)
    IN  {ScanUp(body, ms[i].start, ms[i].start, 0).lines_removed : i \in 1..Len(ms)}

\* the counters the key loop stopped at, for the keys that got a suffix
KeyCounters(tabs) ==
    {n \in 2..(Cardinality(DOMAIN tabs) + 1) :
        \E k \in DOMAIN tabs : \E j \in 1..Len(k) : k = Suffixed(SubSeq(k, 1, j), n)}

\* C25: parse() terminates: every call returns, each loop over the sections
\* making one pass per section; the scan above a block makes scan_limit
\* passes at most, also when its position does not move, and the key loop
\* stops at a counter no greater than the number of entries of the section.
C25_ParseTerminates ==
    /\ (pc = "extract") ~> (pc = "returned")
    /\ [](pc = "returned" =>
            \A i \in 1..Len(sections) :
                /\ \A n \in ScanPasses(BodyOf(sections[i])) : n <= scan_limit
                /\ \A k \in DOMAIN sections[i].tables :
                       k[Len(k)] = ")" =>
                           \E n \in KeyCounters(sections[i].tables) :
                               \E j \in 1..Len(k) : k = Suffixed(SubSeq(k, 1, j), n))

\* parse() has returned for a document in which a scan made all its passes
\* at one position and a block was stored under a suffixed key
C25_Witness ==
    /\ pc = "returned"
    /\ \E i \in 1..Len(sections) :
           /\ scan_limit \in ScanPasses(BodyOf(sections[i]))
           /\ KeyCounters(sections[i].tables) # {}

----------------------------------------------------------------------------
(* What _build_hierarchy leaves of the section list *)

\* the section is a node of the tree at the position its path gives
InTree(tree, number) ==
    LET at == SubsAt(tree, Parts(number), Len(Parts(number)) - 1)
    IN  at.ok /\ number \in DOMAIN at.d

\* an orphan warning names the section
Warned(log_, number) == \E w \in 1..Len(log_) : log_[w].section = number

\* C26: when the tree is returned, every section of the list is a node of
\* the tree at the position its path gives, or was reported by an orphan
\* warning: no placed section is removed or replaced without a warning.
C26_PlacedOrWarned ==
    (pc = "returned" /\ runs = 1) =>
        \A i \in 1..Len(sections) :
            InTree(root, sections[i].number) \/ Warned(warnings, sections[i].number)

----------------------------------------------------------------------------
(* The body spans *)

\* the first parse() of a fresh parser is under way or has just returned
FirstRun == runs = 0 \/ (runs = 1 /\ pc = "returned")

\* C27: in the first parse() of a fresh parser the body spans are ordered
\* and disjoint: start_pos <= end_pos for every section whose body was
\* taken, and its end_pos is not beyond the start_pos of the next section.
C27_SpansOrderedDisjoint ==
    FirstRun =>
        \A i \in 1..Len(sections) :
            (pc # "content" \/ i < idx) =>
                /\ sections[i].start_pos <= sections[i].end_pos
                /\ i < Len(sections) => sections[i].end_pos <= sections[i + 1].start_pos

\* the first parse() returned several sections, and the body of one that
\* is not the last is not empty
C27_Witness ==
    /\ runs = 1 /\ pc = "returned"
    /\ \E i \in 1..(Len(sections) - 1) : sections[i].start_pos < sections[i].end_pos

----------------------------------------------------------------------------
(* Blocks of one section with the same base key *)

\* the blocks with the base key of e that stand after e in the body
LaterSameBase(entries, e) ==
    {j \in 1..Len(entries) : entries[j].base = e.base /\ entries[j].start > e.start}

\* C28: of the blocks of one section that resolve to the same base key, the
\* last in document order is stored under the bare key and the earlier ones
\* get ' (2)', ' (3)', ... in reverse document order.
C28_LatestBlockBareKey ==
    TDone =>
        \A i \in 1..Len(log) :
            log[i].key = IF LaterSameBase(log, log[i]) = {} THEN log[i].base
                         ELSE Suffixed(log[i].base,
                                       Cardinality(LaterSameBase(log, log[i])) + 1)

\* a body with two blocks of one base key: the later one has the bare key,
\* the earlier one ' (2)'
C28_Witness ==
    /\ TDone
    /\ \E i, j \in 1..Len(log) :
           /\ log[i].base = log[j].base
           /\ log[i].start < log[j].start
           /\ log[j].key = log[j].base
           /\ log[i].key = Suffixed(log[i].base, 2)

----------------------------------------------------------------------------
(* create_knowledge_graph.py: BuildingCodeLoader.load_all                  *)
(* A dict of the JSON hierarchy is the sequence of its items, in the       *)
(* order of the file; the graph is a set of nodes and a set of             *)
(* relationships, MERGE being a union.                                     *)

MaxRefs == 1

S91  == <<"9", ".", "1", ".">>
S911 == <<"9", ".", "1", ".", "1", ".">>
S92  == <<"9", ".", "2", ".">>
S99  == <<"9", ".", "9", ".">>
T92  == <<"Table", " ", "9", ".", "2", ".">>
T99  == <<"Table", " ", "9", ".", "9", ".">>

\* what a section may cite: sections and tables of the hierarchy, before and
\* after it, and a section and a table the hierarchy does not hold
Targets == {S91, S911, S92, T92, S99, T99}

RECURSIVE RefLists(_)
RefLists(n) == IF n = 0 THEN {<<>>}
               ELSE RefLists(n - 1) \cup {Append(l, t) : l \in RefLists(n - 1), t \in Targets}

\* one item of a dict of sections
Item(id, tabs, referenced_text, subsections) ==
    [id |-> id,
     data |-> [title |-> <<"a">>, text |-> <<"a">>, tables |-> tabs,
               referenced_text |-> referenced_text, subsections |-> subsections]]

\* 9.1. > 9.1.1., then 9.2. with its table
Hierarchy(r1, r2) ==
    <<Item(S91, <<>>, <<>>, <<Item(S911, <<>>, r1, <<>>)>>),
      Item(S92, <<[id |-> T92, data |-> [table_name |-> <<"a">>, table_content |-> <<"|">>]]>>,
           r2, <<>>)>>

Hierarchies == {Hierarchy(r1, r2) : r1 \in RefLists(MaxRefs), r2 \in RefLists(MaxRefs)}

SectionNode(id) == [label |-> "Section", id |-> id]
TableNode(id)   == [label |-> "Table", id |-> id]

\* MERGE (n {id: $id})
MergeNode(g, node) == [g EXCEPT !.nodes = @ \cup {node}]

\* MATCH (a) MATCH (b) MERGE (a)-[:type]->(b): nothing when a match fails
MergeRel(g, type, a, b) ==
    IF a \in g.nodes /\ b \in g.nodes
    THEN [g EXCEPT !.rels = @ \cup {[type |-> type, from |-> a, to |-> b]}]
    ELSE g

\* ref_id.startswith("Table ")
IsTableRef(ref_id) == Len(ref_id) >= 2 /\ ref_id[1] = "Table" /\ ref_id[2] = " "

\* the node a reference is matched against
TargetNode(ref_id) == IF IsTableRef(ref_id) THEN TableNode(ref_id) ELSE SectionNode(ref_id)

LoadTasks(items, parent_id) ==
    [i \in 1..Len(items) |->
        [op |-> "load_section", id |-> items[i].id, data |-> items[i].data,
         parent_id |-> parent_id]]

LinkTasks(t) ==
    IF t.parent_id # <<>>
    THEN <<[op |-> "link", parent_id |-> t.parent_id, child_id |-> t.id]>>
    ELSE <<>>

TableTasks(section_id, tabs) ==
    [i \in 1..Len(tabs) |-> [op |-> "table", section_id |-> section_id, table_id |-> tabs[i].id]]

RefTasks(section_id, referenced_items) ==
    [i \in 1..Len(referenced_items) |->
        [op |-> "ref", section_id |-> section_id, ref_id |-> referenced_items[i]]]

ProcessTasks(items) ==
    [i \in 1..Len(items) |->
        [op |-> "process_references", id |-> items[i].id, data |-> items[i].data]]

\* the references of a section are created as soon as the section is loaded
SectionTasksWithRefs(t) ==
    LinkTasks(t) \o TableTasks(t.id, t.data.tables)
       \o RefTasks(t.id, t.data.referenced_text) \o LoadTasks(t.data.subsections, t.id)

\* lines 107-122: what load_section runs after the MERGE of its node: the
\* link to the parent, the tables, then load_section for each subsection
SectionTasks(t) ==
    LinkTasks(t) \o TableTasks(t.id, t.data.tables) \o LoadTasks(t.data.subsections, t.id)

\* load_all(code_dict) is called on an empty graph
InitLoad ==
    /\ text = <<>> /\ sections = <<>> /\ idx = 0 /\ root = <<>>
    /\ warnings = <<>> /\ runs = 0 /\ firstTree = <<>> /\ firstView = <<>>
    /\ refs = <<>> /\ raw = <<>> /\ cleaned = <<>> /\ matches = <<>>
    /\ tables = <<>> /\ log = <<>>
    /\ similar_articles = <<>> /\ contexts = <<>> /\ prompt_parts = <<>>
    /\ current_length = 0 /\ result = <<>>
    /\ pc = "load_all"
    /\ code_dict \in Hierarchies
    /\ graph = [nodes |-> {}, rels |-> {}]
    /\ todo = Append(LoadTasks(code_dict, <<>>), [op |-> "load_all_references"])

LoaderRest ==
    UNCHANGED <<text, sections, pc, idx, root, runs, firstTree, firstView, refs, raw,
                cleaned, matches, tables, log, code_dict, similar_articles, contexts,
                prompt_parts, current_length, result>>

\* lines 96-105: MERGE (s:Section {id: $id})
load_section ==
    /\ todo # <<>> /\ Head(todo).op = "load_section"
    /\ graph' = MergeNode(graph, SectionNode(Head(todo).id))
    /\ todo' = SectionTasks(Head(todo)) \o Tail(todo)
    /\ UNCHANGED warnings
    /\ LoaderRest

\* lines 108-113: the HAS_SUBSECTION link from the parent
link_parent ==
    /\ todo # <<>> /\ Head(todo).op = "link"
    /\ graph' = MergeRel(graph, "HAS_SUBSECTION", SectionNode(Head(todo).parent_id),
                         SectionNode(Head(todo).child_id))
    /\ todo' = Tail(todo)
    /\ UNCHANGED warnings
    /\ LoaderRest

\* lines 63-82: one table of load_tables
load_tables ==
    /\ todo # <<>> /\ Head(todo).op = "table"
    /\ graph' = MergeRel(MergeRel(MergeNode(graph, TableNode(Head(todo).table_id)),
                                  "IS_IN_SECTION", TableNode(Head(todo).table_id),
                                  SectionNode(Head(todo).section_id)),
                         "HAS_TABLE", SectionNode(Head(todo).section_id),
                         TableNode(Head(todo).table_id))
    /\ todo' = Tail(todo)
    /\ UNCHANGED warnings
    /\ LoaderRest

\* lines 183-193: load_all_references
load_all_references ==
    /\ todo # <<>> /\ Head(todo).op = "load_all_references"
    /\ todo' = ProcessTasks(code_dict) \o Tail(todo)
    /\ UNCHANGED <<graph, warnings>>
    /\ LoaderRest

\* lines 167-181: the references of the section, then its subsections
process_references_recursive ==
    /\ todo # <<>> /\ Head(todo).op = "process_references"
    /\ todo' = RefTasks(Head(todo).id, Head(todo).data.referenced_text)
                  \o ProcessTasks(Head(todo).data.subsections) \o Tail(todo)
    /\ UNCHANGED <<graph, warnings>>
    /\ LoaderRest

\* lines 136-165: one reference of create_reference_relationships
create_reference_relationships ==
    /\ todo # <<>> /\ Head(todo).op = "ref"
    /\ graph' = MergeRel(graph, "REFERENCES", SectionNode(Head(todo).section_id),
                         TargetNode(Head(todo).ref_id))
    /\ warnings' = IF SectionNode(Head(todo).section_id) \in graph.nodes
                      /\ TargetNode(Head(todo).ref_id) \in graph.nodes
                   THEN warnings
                   ELSE Append(warnings, [ref_id |-> Head(todo).ref_id,
                                          section |-> Head(todo).section_id])
    /\ todo' = Tail(todo)
    /\ LoaderRest

NextLoad ==
    \/ load_section
    \/ link_parent
    \/ load_tables
    \/ load_all_references
    \/ process_references_recursive
    \/ create_reference_relationships

SpecLoad == InitLoad /\ [][NextLoad]_vars

----------------------------------------------------------------------------
(* Claims about load_all *)

\* the sections of a dict and of the dicts below it, in the order of the file
RECURSIVE ItemsOf(_)
ItemsOf(items) ==
    Flatten([i \in 1..Len(items) |-> <<items[i]>> \o ItemsOf(items[i].data.subsections)])

\* the Section and Table nodes of the whole hierarchy
NodesOf(items) ==
    {SectionNode(ItemsOf(items)[i].id) : i \in 1..Len(ItemsOf(items))}
       \cup UNION {{TableNode(ItemsOf(items)[i].data.tables[j].id) :
                       j \in 1..Len(ItemsOf(items)[i].data.tables)} :
                   i \in 1..Len(ItemsOf(items))}

\* a REFERENCES relationship is about to be attempted, or the pass over the
\* references has begun
AtReferences ==
    todo # <<>> /\ Head(todo).op \in {"load_all_references", "process_references", "ref"}

\* C29: load_all creates every Section node and every Table node of the
\* hierarchy before it attempts any REFERENCES relationship, and the node of
\* a parent before the HAS_SUBSECTION link to its child; so a reference to a
\* section or a table of the hierarchy finds its node, wherever the target
\* stands, and gets its relationship without a warning.
C29_NodesBeforeReferences ==
    /\ AtReferences => NodesOf(code_dict) \subseteq graph.nodes
    /\ (todo # <<>> /\ Head(todo).op = "link") =>
           /\ SectionNode(Head(todo).parent_id) \in graph.nodes
           /\ SectionNode(Head(todo).child_id) \in graph.nodes
    /\ \A w \in 1..Len(warnings) : TargetNode(warnings[w].ref_id) \notin NodesOf(code_dict)
    /\ todo = <<>> =>
           \A i \in 1..Len(ItemsOf(code_dict)) :
               \A j \in 1..Len(ItemsOf(code_dict)[i].data.referenced_text) :
                   LET item   == ItemsOf(code_dict)[i]
                       target == TargetNode(item.data.referenced_text[j])
                   IN  target \in NodesOf(code_dict) =>
                           [type |-> "REFERENCES", from |-> SectionNode(item.id),
                            to |-> target] \in graph.rels

\* the load is over: section 9.1.1. cites the table of section 9.2., which
\* is loaded after it, and has its relationship; section 9.2. cites a
\* section the hierarchy does not hold, and a warning was printed
C29_Witness ==
    /\ pc = "load_all" /\ todo = <<>>
    /\ [type |-> "REFERENCES", from |-> SectionNode(S911), to |-> TableNode(T92)]
          \in graph.rels
    /\ \E w \in 1..Len(warnings) : warnings[w].ref_id = S99

----------------------------------------------------------------------------
(* GraphRAG.py: BuildingCodeRAG.answer_question                            *)
(* Lengths are counted in symbols. The articles the vector search returns  *)
(* are nodes of the graph, so get_context_for_section finds each of them;  *)
(* the contexts drawn have no parents, tables, references or children.     *)

top_k == 3
max_context_length == 80

A1 == <<"9", ".", "1", ".", "1", ".", "1", ".">>
A2 == <<"9", ".", "1", ".", "1", ".", "2", ".">>
A3 == <<"9", ".", "2", ".", "1", ".", "1", ".">>

ArticleIds == {A1, A2, A3}

ShortText == <<"a">>
LongText  == <<"a", " ", "b", " ", "c", " ", "d", " ", "e", " ", "f">>

Articles == {[section_id |-> id, title |-> <<"a">>, text |-> t] :
                id \in ArticleIds, t \in {ShortText, LongText}}

\* the lists the vector search may return: top_k nodes at most, no node twice
RECURSIVE ArticleLists(_)
ArticleLists(n) ==
    IF n = 0 THEN {<<>>}
    ELSE ArticleLists(n - 1)
           \cup {Append(p[1], p[2]) :
                    p \in {q \in ArticleLists(n - 1) \X Articles :
                              \A i \in 1..Len(q[1]) : q[1][i].section_id # q[2].section_id}}

\* lines 43-106: the record of the section
get_context_for_section(article) ==
    [section_id |-> article.section_id, title |-> article.title, text |-> article.text,
     parents |-> <<>>, children |-> <<>>, references |-> <<>>, tables |-> <<>>]

\* lines 146-150: the head of the prompt
PromptHead(question) ==
    <<<<"expert">>,
      <<"\n", "Question", ":", " ">> \o question \o <<"\n">>,
      <<"\n", "Relevant", ":", "\n">>>>

\* lines 154-203: section_text of the i-th context
SectionText(i, ctx) ==
    Join(<<<<"\n", "=">>,
           <<"Section", " ">> \o Str(i) \o <<":", " ">> \o ctx.section_id,
           <<"=">>,
           <<"Title", ":", " ">> \o ctx.title,
           <<"\n", "Content", ":">>,
           ctx.text>>, "\n")

\* lines 212-214: the end of the prompt
PromptTail == <<<<"\n", "=">>, <<"\n", "answer">>, <<"cite">>>>

\* 'section_id' of each context
SectionIds(ctxs) == [i \in 1..Len(ctxs) |-> ctxs[i].section_id]

\* the sections whose section_text is a part of the prompt
IncludedIds(ctxs, parts) ==
    SectionIds(SelectSeq([i \in 1..Len(ctxs) |-> [section_id |-> ctxs[i].section_id,
                                                   text |-> SectionText(i, ctxs[i])]],
                         LAMBDA c : c.text \in Range(parts)))

\* answer_question(question) is called
InitRag ==
    /\ text = <<>> /\ sections = <<>> /\ idx = 0 /\ root = <<>>
    /\ warnings = <<>> /\ runs = 0 /\ firstTree = <<>> /\ firstView = <<>>
    /\ refs = <<>> /\ raw = <<>> /\ cleaned = <<>> /\ matches = <<>>
    /\ tables = <<>> /\ log = <<>>
    /\ code_dict = <<>> /\ graph = [nodes |-> {}, rels |-> {}] /\ todo = <<>>
    /\ pc = "answer_question"
    /\ similar_articles = <<>> /\ contexts = <<>> /\ prompt_parts = <<>>
    /\ current_length = 0 /\ result = <<>>

RagRest ==
    UNCHANGED <<text, sections, root, warnings, runs, firstTree, firstView, refs, raw,
                cleaned, matches, tables, log, code_dict, graph, todo>>

\* lines 128-135: the vector search; no article: the early return
find_similar_articles ==
    /\ pc = "answer_question"
    /\ \E found \in ArticleLists(top_k) :
          /\ similar_articles' = found
          /\ pc' = IF found = <<>> THEN "returned" ELSE "contexts"
          /\ result' = IF found = <<>>
                       THEN [answer |-> "none", source_sections |-> <<>>, contexts |-> <<>>]
                       ELSE result
    /\ idx' = 1
    /\ UNCHANGED <<contexts, prompt_parts, current_length>>
    /\ RagRest

\* lines 139-143: the context of one article
gather_context ==
    /\ pc = "contexts"
    /\ idx <= Len(similar_articles)
    /\ contexts' = Append(contexts, get_context_for_section(similar_articles[idx]))
    /\ idx' = idx + 1
    /\ UNCHANGED <<pc, similar_articles, prompt_parts, current_length, result>>
    /\ RagRest

\* lines 146-152: the head of the prompt and its length
start_prompt ==
    /\ pc = "contexts"
    /\ idx > Len(similar_articles)
    /\ prompt_parts' = PromptHead(<<"q">>)
    /\ current_length' = Len(Join(PromptHead(<<"q">>), "\n"))
    /\ idx' = 1
    /\ pc' = "sections"
    /\ UNCHANGED <<similar_articles, contexts, result>>
    /\ RagRest

\* lines 154-210: the section fits and is added to the prompt
add_section ==
    /\ pc = "sections"
    /\ idx <= Len(contexts)
    /\ current_length + Len(SectionText(idx, contexts[idx])) <= max_context_length
    /\ prompt_parts' = Append(prompt_parts, SectionText(idx, contexts[idx]))
    /\ current_length' = current_length + Len(SectionText(idx, contexts[idx]))
    /\ idx' = idx + 1
    /\ UNCHANGED <<pc, similar_articles, contexts, result>>
    /\ RagRest

\* lines 205-207: the section does not fit: break
limit_reached ==
    /\ pc = "sections"
    /\ idx <= Len(contexts)
    /\ current_length + Len(SectionText(idx, contexts[idx])) > max_context_length
    /\ pc' = "generate"
    /\ UNCHANGED <<idx, similar_articles, contexts, prompt_parts, current_length, result>>
    /\ RagRest

\* lines 212-237: the prompt is completed and sent; the model answers or
\* raises, and the result is returned
generate_answer ==
    /\ pc = "generate" \/ (pc = "sections" /\ idx > Len(contexts))
    /\ prompt_parts' = prompt_parts \o PromptTail
    /\ \E answer \in {"text", "error"} :
          result' = [answer |-> answer,
                     source_sections |-> SectionIds(contexts),
                     contexts |-> contexts,
                     prompt_length |-> Len(Join(prompt_parts', "\n"))]
    /\ pc' = "returned"
    /\ UNCHANGED <<idx, similar_articles, contexts, current_length>>
    /\ RagRest

NextRag ==
    \/ find_similar_articles
    \/ gather_context
    \/ start_prompt
    \/ add_section
    \/ limit_reached
    \/ generate_answer

SpecRag == InitRag /\ [][NextRag]_vars

\* C30: the sections listed in source_sections are exactly the sections
\* whose content is in the prompt sent to the model: a section left out
\* because it would exceed max_context_length is not listed.
C30_SourcesAreInPrompt ==
    (pc = "returned" /\ similar_articles # <<>>) =>
        result.source_sections = IncludedIds(contexts, prompt_parts)

====
